---- MODULE Spec2Model ----
(***************************************************************************)
(* A model of the per-user file store of src/fs_adapter.py (FSAdapter).    *)
(*                                                                         *)
(* Strings are sequences of one-character strings, so that the string      *)
(* functions the adapter relies on (replace, strip, split, join, stem)     *)
(* are computed character by character.  A lexical path (pathlib.Path) is  *)
(* the sequence of its components, relative to the working directory; a    *)
(* physical path is the sequence of components of an existing or           *)
(* to-be-created node after the operating system resolved every "..".      *)
(***************************************************************************)
EXTENDS Integers, Sequences, FiniteSets, TLC

VARIABLES
    dirs,       \* the directories on disk (set of physical paths)
    files,      \* the regular files on disk: physical path -> content
    index,      \* content of files/<user>.json: sequence of entries, in dict order
    pc,         \* "new" before the adapter is constructed, then "idle", or "hung"
                \* once a call entered a loop that never exits
    nops,       \* number of calls issued so far
    lastCall,   \* the most recent call and what it returned
    snap,       \* the nodes under the user root before the most recent call
    sanIn,      \* input of the sanitizer run
    sanOut,     \* its outcome
    calls,      \* per caller, the call it is executing step by step
    batch       \* the batch of intents of one update request, and its progress

vars == <<dirs, files, index, pc, nops, lastCall, snap, sanIn, sanOut, calls, batch>>

(***************************************************************************)
(* Bounds.                                                                 *)
(***************************************************************************)
MaxLen == 4         \* longest string handed to the sanitizer run
MaxOps == 3         \* calls issued in one run of the store
MaxPathLen == 3     \* longest string whose sanitized form is resolved

CHUNK_SIZE == 14

(***************************************************************************)
(* Strings.                                                                *)
(***************************************************************************)
Slash == "/"
Backslash == "\\"
Dot == "."
Space == " "

EmptyStr == <<>>
DotStr == <<".">>
DotDot == <<".", ".">>

Last(s) == s[Len(s)]
Front(s) == SubSeq(s, 1, Len(s) - 1)

IsPrefix(p, s) == Len(p) <= Len(s) /\ SubSeq(s, 1, Len(p)) = p

\* str.replace("\\", "/")
ReplaceBackslash(s) == [i \in 1..Len(s) |-> IF s[i] = Backslash THEN Slash ELSE s[i]]

\* str.strip(): whitespace removed at both ends
RECURSIVE LStrip(_)
LStrip(s) == IF s # <<>> /\ Head(s) = Space THEN LStrip(Tail(s)) ELSE s

RECURSIVE RStrip(_)
RStrip(s) == IF s # <<>> /\ Last(s) = Space THEN RStrip(Front(s)) ELSE s

Strip(s) == RStrip(LStrip(s))

\* while sanitized.startswith("/"): sanitized = sanitized[1:]
RECURSIVE StripLeadingSlashes(_)
StripLeadingSlashes(s) ==
    IF s # <<>> /\ Head(s) = Slash THEN StripLeadingSlashes(Tail(s)) ELSE s

\* s.split("/")
RECURSIVE SplitFrom(_, _, _, _)
SplitFrom(s, i, cur, acc) ==
    IF i > Len(s) THEN Append(acc, cur)
    ELSE IF s[i] = Slash THEN SplitFrom(s, i + 1, <<>>, Append(acc, cur))
    ELSE SplitFrom(s, i + 1, Append(cur, s[i]), acc)

SplitSlash(s) == SplitFrom(s, 1, <<>>, <<>>)

\* "/".join(parts)
RECURSIVE JoinSlash(_)
JoinSlash(parts) ==
    IF parts = <<>> THEN <<>>
    ELSE IF Len(parts) = 1 THEN parts[1]
    ELSE parts[1] \o <<Slash>> \o JoinSlash(Tail(parts))

RECURSIVE DropEmptyAndDot(_)
DropEmptyAndDot(parts) ==
    IF parts = <<>> THEN <<>>
    ELSE IF Head(parts) \in {EmptyStr, DotStr} THEN DropEmptyAndDot(Tail(parts))
    ELSE <<Head(parts)>> \o DropEmptyAndDot(Tail(parts))

RECURSIVE DropEmpty(_)
DropEmpty(parts) ==
    IF parts = <<>> THEN <<>>
    ELSE IF Head(parts) = EmptyStr THEN DropEmpty(Tail(parts))
    ELSE <<Head(parts)>> \o DropEmpty(Tail(parts))

PurePosixPartsKeepDot(s) == DropEmpty(SplitSlash(s))

\* PurePosixPath(s).parts for a string with no leading slash: the components
\* between slashes, without the empty and the "." ones; ".." is kept.
PurePosixParts(s) == DropEmptyAndDot(SplitSlash(s))

HasPart(parts, c) == \E i \in 1..Len(parts) : parts[i] = c

(***************************************************************************)
(* FSAdapter._sanitize_relative_path_str.  ok = FALSE is the ValueError    *)
(* "Path traversal is not allowed".                                        *)
(***************************************************************************)
sanitize_keeps_dotdot(value) ==
    IF value = EmptyStr THEN [ok |-> TRUE, val |-> EmptyStr]
    ELSE LET sanitized == StripLeadingSlashes(Strip(ReplaceBackslash(value)))
         IN  IF sanitized \in {EmptyStr, DotStr} THEN [ok |-> TRUE, val |-> EmptyStr]
             ELSE [ok |-> TRUE, val |-> JoinSlash(PurePosixParts(sanitized))]

sanitize_relative_path_str(value) ==
    IF value = EmptyStr THEN [ok |-> TRUE, val |-> EmptyStr]
    ELSE LET sanitized == StripLeadingSlashes(Strip(ReplaceBackslash(value)))
         IN  IF sanitized \in {EmptyStr, DotStr} THEN [ok |-> TRUE, val |-> EmptyStr]
             ELSE LET parts == PurePosixParts(sanitized)
                  IN  IF HasPart(parts, DotDot)
                      THEN [ok |-> FALSE, val |-> EmptyStr]
                      ELSE [ok |-> TRUE, val |-> JoinSlash(parts)]

(***************************************************************************)
(* pathlib.  Path(a) / b appends the components of b; str() joins them.    *)
(* The strings joined here never start with a slash (see AddRecords), so   *)
(* the absolute-path case of the join does not arise.                      *)
(***************************************************************************)
PathJoin(path, str) == path \o PurePosixParts(str)

PathStr(path) == JoinSlash(path)

PathOf(str) == PurePosixParts(str)

\* Path.name: the final component, "" when there is none
PathName(path) == IF path = <<>> THEN EmptyStr ELSE Last(path)

\* str.rfind("."): the greatest position (0-based) holding a dot, -1 if none
RECURSIVE RFindDotFrom(_, _)
RFindDotFrom(s, i) ==
    IF i = 0 THEN -1
    ELSE IF s[i] = Dot THEN i - 1
    ELSE RFindDotFrom(s, i - 1)

RFindDot(s) == RFindDotFrom(s, Len(s))

\* Path.suffix / Path.stem of a component: the suffix starts at the last dot,
\* provided that dot is neither the first nor the last character.
StemOfName(name) ==
    LET i == RFindDot(name)
    IN  IF 0 < i /\ i < Len(name) - 1 THEN SubSeq(name, 1, i) ELSE name

PathStem(path) == StemOfName(PathName(path))

\* f"{counter}"
Digit(d) == CASE d = 0 -> "0" [] d = 1 -> "1" [] d = 2 -> "2" [] d = 3 -> "3"
              [] d = 4 -> "4" [] d = 5 -> "5" [] d = 6 -> "6" [] d = 7 -> "7"
              [] d = 8 -> "8" [] d = 9 -> "9"

RECURSIVE IntStr(_)
IntStr(n) == IF n < 10 THEN <<Digit(n)>> ELSE IntStr(n \div 10) \o <<Digit(n % 10)>>

\* f"{base_name} ({counter})"
CounterName(base_name, counter) ==
    base_name \o <<Space, "(">> \o IntStr(counter) \o <<")">>

\* str.replace(sub, ""): every occurrence of sub removed, left to right
RECURSIVE RemoveAll(_, _)
RemoveAll(s, sub) ==
    IF sub = <<>> \/ Len(s) < Len(sub) THEN s
    ELSE IF SubSeq(s, 1, Len(sub)) = sub
         THEN RemoveAll(SubSeq(s, Len(sub) + 1, Len(s)), sub)
         ELSE <<Head(s)>> \o RemoveAll(Tail(s), sub)

(***************************************************************************)
(* The file system.  Paths are resolved from the working directory <<>>,   *)
(* component by component, as the operating system does: a component is    *)
(* looked up only in an existing directory, and ".." steps to the parent.  *)
(* Stepping above the working directory leaves the modelled tree and is    *)
(* reported as unresolved.                                                 *)
(***************************************************************************)
RECURSIVE WalkFrom(_, _, _, _)
WalkFrom(D, path, i, cur) ==
    IF i > Len(path) THEN [ok |-> TRUE, p |-> cur]
    ELSE IF cur \notin D THEN [ok |-> FALSE, p |-> cur]
    ELSE IF path[i] = DotDot
         THEN IF cur = <<>> THEN [ok |-> FALSE, p |-> cur]
              ELSE WalkFrom(D, path, i + 1, Front(cur))
         ELSE WalkFrom(D, path, i + 1, Append(cur, path[i]))

Walk(D, path) == WalkFrom(D, path, 1, <<>>)

\* ./files/<user>.json, the index document, a sibling of the user root.  Its
\* content is the variable index; it exists from the construction on.
FilesDir == <<"f", "i", "l", "e", "s">>
UserName == <<"u">>
IndexName == <<"u", ".", "j", "s", "o", "n">>

index_path == <<FilesDir, IndexName>>

\* Path.exists()
Exists(D, F, path) ==
    LET w == Walk(D, path)
    IN  w.ok /\ (w.p \in D \/ w.p \in DOMAIN F \/ w.p = index_path)

\* the prefixes of a path, the path itself included
Prefixes(p) == {SubSeq(p, 1, k) : k \in 0..Len(p)}

IsUnder(p, root) == Len(p) > Len(root) /\ SubSeq(p, 1, Len(root)) = root

\* the content a function keeps outside a set of paths
Without(F, gone) == [p \in DOMAIN F \ gone |-> F[p]]

WriteFile(F, p, content) == [q \in DOMAIN F \cup {p} |-> IF q = p THEN content ELSE F[q]]

\* The content of a file is the list json.load returns for it.  Torn stands
\* for a text that does not parse (an interrupted json.dump): json.load
\* raises JSONDecodeError on it.
Torn == <<<<"{">>>>

(***************************************************************************)
(* FSAdapter.__init__: ./files, ./files/<user> and an empty index.         *)
(***************************************************************************)
root_path == <<FilesDir>>
base_path == <<FilesDir, UserName>>

InitDirs == {<<>>, root_path, base_path}

(***************************************************************************)
(* Records and index entries.  chunks[k] of the source is rec[k + 1] here. *)
(***************************************************************************)
FolderType == <<".", "f", "o", "l", "d", "e", "r">>
FolderMetaName == <<".", "f", "o", "l", "d", "e", "r", ".", "j", "s", "o", "n">>
Untitled == <<"u", "n", "t", "i", "t", "l", "e", "d">>

InIndex(idx, uuid) == \E i \in 1..Len(idx) : idx[i].uuid = uuid

EntryOf(idx, uuid) == idx[CHOOSE i \in 1..Len(idx) : idx[i].uuid = uuid]

\* del index[uuid]
RemoveEntry(idx, uuid) ==
    LET i == CHOOSE k \in 1..Len(idx) : idx[k].uuid = uuid
    IN  SubSeq(idx, 1, i - 1) \o SubSeq(idx, i + 1, Len(idx))

(***************************************************************************)
(* FSAdapter._load_index.  The variable index is the index document: the   *)
(* mapping it holds, or one of three other conditions: the document is     *)
(* absent, its text does not parse (a save that was interrupted), or it    *)
(* parses to a list (a record written onto it whose save never came).      *)
(* FileNotFoundError and JSONDecodeError are caught and give the empty     *)
(* mapping; whatever else json.load returns is returned to the caller.     *)
(***************************************************************************)
DocMarker(kind) ==
    <<[uuid |-> "", type |-> kind, path |-> EmptyStr, dir_path |-> EmptyStr,
       name |-> EmptyStr, parent_path |-> EmptyStr]>>

MissingIndex == DocMarker("missing")
TornIndex == DocMarker("torn")
ListDoc == DocMarker("list")

load_index(doc) == IF doc \in {MissingIndex, TornIndex} THEN <<>> ELSE doc

\* the document after a call that loaded it: a call saves only a mapping it
\* changed, and leaves the document alone otherwise
index_after(doc, idx) == IF idx = load_index(doc) THEN doc ELSE idx

(***************************************************************************)
(* FSAdapter._normalize_subpath: sanitize, join onto the user root, check  *)
(* containment, mkdir(parents=True, exist_ok=True).  The mkdir fails, and  *)
(* creates nothing, when the target or one of its ancestors is a file.     *)
(***************************************************************************)
MkdirParents(D, F, target) ==
    IF \E q \in Prefixes(target) : q \in DOMAIN F
    THEN [ok |-> FALSE, dirs |-> D]
    ELSE [ok |-> TRUE, dirs |-> D \cup Prefixes(target)]

normalize_subpath_no_mkdir(D, F, subpath) ==
    LET san == sanitize_relative_path_str(subpath)
    IN  IF ~san.ok
        THEN [kind |-> "ValueError", dirs |-> D, target |-> <<>>, rel |-> EmptyStr]
        ELSE LET parts == PurePosixParts(san.val)
             IN  [kind |-> "ok", dirs |-> D, target |-> base_path \o parts,
                  rel |-> JoinSlash(parts)]

normalize_subpath(D, F, subpath) ==
    LET san == sanitize_relative_path_str(subpath)
    IN  IF ~san.ok
        THEN [kind |-> "ValueError", dirs |-> D, target |-> <<>>, rel |-> EmptyStr]
        ELSE IF san.val = EmptyStr
        THEN [kind |-> "ok", dirs |-> D, target |-> base_path, rel |-> EmptyStr]
        ELSE LET parts == PurePosixParts(san.val)
                 target_path == base_path \o parts
                 mk == MkdirParents(D, F, target_path)
             IN  IF ~IsPrefix(base_path, target_path)
                 THEN [kind |-> "ValueError", dirs |-> D, target |-> <<>>, rel |-> EmptyStr]
                 ELSE IF ~mk.ok
                 THEN [kind |-> "OSError", dirs |-> D, target |-> <<>>, rel |-> EmptyStr]
                 ELSE [kind |-> "ok", dirs |-> mk.dirs, target |-> target_path,
                       rel |-> JoinSlash(parts)]

(***************************************************************************)
(* FSAdapter._get_unique_name.  For a file the test is on the stem of the  *)
(* regular files that base_path.glob(stem + "*") yields.  The counter loop *)
(* has no exit but a free name.  The store holds finitely many nodes and   *)
(* the candidates of distinct counters are distinct strings, so when the   *)
(* candidates of ProbeLimit counters are all taken, the test does not      *)
(* depend on the counter and the loop never exits: ok = FALSE.             *)
(***************************************************************************)
StemTaken(D, F, base, stem) ==
    \E f \in DOMAIN F :
        /\ f # <<>>
        /\ Front(f) = base
        /\ IsPrefix(stem, Last(f))
        /\ StemOfName(Last(f)) = stem

NameTaken(D, F, base, name, is_folder) ==
    IF is_folder
    THEN Exists(D, F, PathJoin(base, name))
    ELSE StemTaken(D, F, base, PathStem(PathOf(name)))

ProbeLimit(D, F) == Cardinality(D) + Cardinality(DOMAIN F) + 1

RECURSIVE ProbeFrom(_, _, _, _, _, _)
ProbeFrom(D, F, base, base_name, is_folder, counter) ==
    IF counter > ProbeLimit(D, F) THEN [ok |-> FALSE, name |-> EmptyStr]
    ELSE LET new_name == CounterName(base_name, counter)
         IN  IF ~NameTaken(D, F, base, new_name, is_folder)
             THEN [ok |-> TRUE, name |-> new_name]
             ELSE ProbeFrom(D, F, base, base_name, is_folder, counter + 1)

get_unique_name_from_two(D, F, base, name, is_folder) ==
    IF ~NameTaken(D, F, base, name, is_folder)
    THEN [ok |-> TRUE, name |-> name]
    ELSE ProbeFrom(D, F, base, name, is_folder, 2)

get_unique_name(D, F, base, name, is_folder) ==
    IF ~NameTaken(D, F, base, name, is_folder)
    THEN [ok |-> TRUE, name |-> name]
    ELSE ProbeFrom(D, F, base, name, is_folder, 1)

(***************************************************************************)
(* The outcome of a call: kind is "ok", the exception raised, or "hang"    *)
(* when the call never returns; dirs, files and index are the store it     *)
(* leaves (partial artifacts of a failed add are not rolled back).         *)
(***************************************************************************)
Outcome(kind, D, F, idx, name, path) ==
    [kind |-> kind, dirs |-> D, files |-> F, index |-> idx, name |-> name, path |-> path]

Failed(kind, D, F, idx) == Outcome(kind, D, F, idx, EmptyStr, EmptyStr)

\* FSAdapter._create_folder
create_folder(D, F, idx, uuid, name, target_dir, parent_relative_path, chunks) ==
    LET un == get_unique_name(D, F, target_dir, name, TRUE)
        unique_name == un.name
        folder_path == PathJoin(target_dir, unique_name)
        w == Walk(D, folder_path)
        updated_chunks == [chunks EXCEPT ![2] = unique_name, ![3] = parent_relative_path]
        metadata_path == Append(folder_path, FolderMetaName)
        entry == [uuid |-> uuid, type |-> "folder",
                  path |-> PathStr(metadata_path), dir_path |-> PathStr(folder_path),
                  name |-> unique_name, parent_path |-> parent_relative_path]
        components == DropEmpty(SplitSlash(parent_relative_path))
    IN  IF ~un.ok THEN Failed("hang", D, F, idx)
        \* folder_path.mkdir(exist_ok=False)
        ELSE IF ~w.ok \/ w.p \in D \/ w.p \in DOMAIN F \/ w.p = index_path
        THEN Failed("RuntimeError", D, F, idx)
        \* index[uuid] = {...} on a list raises TypeError
        ELSE IF idx = ListDoc
        THEN Failed("RuntimeError", D \cup {w.p},
                    WriteFile(F, Append(w.p, FolderMetaName), updated_chunks), idx)
        ELSE Outcome("ok", D \cup {w.p},
                     WriteFile(F, Append(w.p, FolderMetaName), updated_chunks),
                     Append(idx, entry),
                     unique_name,
                     JoinSlash(Append(components, unique_name)))

\* FSAdapter._create_file
create_file(D, F, idx, uuid, name, file_type, target_dir, parent_relative_path, chunks) ==
    LET filename == IF file_type # EmptyStr THEN name \o file_type ELSE name
        un == get_unique_name(D, F, target_dir, filename, FALSE)
        unique_filename == un.name
        unique_name == IF file_type # EmptyStr
                       THEN RemoveAll(unique_filename, file_type)
                       ELSE PathStem(PathOf(unique_filename))
        file_path == PathJoin(target_dir, unique_filename)
        w == Walk(D, file_path)
        updated_chunks == [chunks EXCEPT ![2] = unique_name, ![3] = parent_relative_path]
        entry == [uuid |-> uuid, type |-> "file",
                  path |-> PathStr(file_path), dir_path |-> EmptyStr,
                  name |-> unique_filename, parent_path |-> parent_relative_path]
    IN  IF ~un.ok THEN Failed("hang", D, F, idx)
        \* open(file_path, 'w')
        ELSE IF ~w.ok \/ w.p \in D
        THEN Failed("RuntimeError", D, F, idx)
        \* index[uuid] = {...} on a list raises TypeError
        ELSE IF idx = ListDoc
        THEN Failed("RuntimeError", D,
                    IF w.p = index_path THEN F ELSE WriteFile(F, w.p, updated_chunks), idx)
        \* the record lands on the index document, which _save_index then rewrites
        ELSE IF w.p = index_path
        THEN Outcome("ok", D, F, Append(idx, entry), unique_filename, parent_relative_path)
        ELSE Outcome("ok", D, WriteFile(F, w.p, updated_chunks), Append(idx, entry),
                     unique_filename, parent_relative_path)

\* what add_file reads from the record (lines 176-178)
TypeOf(chunks) == chunks[1]
NameOf(chunks) == IF chunks[2] = EmptyStr THEN Untitled ELSE chunks[2]
ParentOf(chunks) == chunks[3]

add_file_resolves_first(D, F, idx, uuid, chunks) ==
    IF uuid = "" THEN Failed("ValueError", D, F, idx)
    ELSE IF Len(chunks) # CHUNK_SIZE THEN Failed("ValueError", D, F, idx)
    ELSE LET ns == normalize_subpath(D, F, ParentOf(chunks))
         IN  IF ns.kind # "ok" THEN Failed(ns.kind, D, F, idx)
             ELSE IF InIndex(idx, uuid) THEN Failed("ValueError", ns.dirs, F, idx)
             ELSE IF TypeOf(chunks) = FolderType
             THEN create_folder(ns.dirs, F, idx, uuid, NameOf(chunks),
                               ns.target, ns.rel, chunks)
             ELSE create_file(ns.dirs, F, idx, uuid, NameOf(chunks), TypeOf(chunks),
                             ns.target, ns.rel, chunks)

\* FSAdapter.add_file
add_file(D, F, idx, uuid, chunks) ==
    IF uuid = "" THEN Failed("ValueError", D, F, idx)
    ELSE IF Len(chunks) # CHUNK_SIZE THEN Failed("ValueError", D, F, idx)
    ELSE IF InIndex(idx, uuid) THEN Failed("ValueError", D, F, idx)
    ELSE LET ns == normalize_subpath(D, F, ParentOf(chunks))
         IN  IF ns.kind # "ok" THEN Failed(ns.kind, D, F, idx)
             ELSE IF TypeOf(chunks) = FolderType
             THEN create_folder(ns.dirs, F, idx, uuid, NameOf(chunks),
                               ns.target, ns.rel, chunks)
             ELSE create_file(ns.dirs, F, idx, uuid, NameOf(chunks), TypeOf(chunks),
                             ns.target, ns.rel, chunks)

(***************************************************************************)
(* FSAdapter.update_chunk.  The method never saves the index; the index    *)
(* document changes only when the record file of the entry is the index    *)
(* document itself (an entry whose path resolves to ./files/<user>.json):  *)
(* json.load then yields the index mapping, chunks[k] = value adds the     *)
(* integer key k, and json.dump writes it back under the key str(k).       *)
(* raised = TRUE is an exception that leaves the method.                   *)
(***************************************************************************)
\* an index value that is not an entry object
ScalarEntry(key, value) ==
    [uuid |-> key, type |-> "scalar", path |-> EmptyStr, dir_path |-> EmptyStr,
     name |-> value, parent_path |-> EmptyStr]

\* the mapping after chunks[k] = value, dumped and loaded again; the index
\* never holds ten entries, so str(k) is a single digit
SetKey(idx, k, value) ==
    IF InIndex(idx, Digit(k))
    THEN [i \in 1..Len(idx) |->
            IF idx[i].uuid = Digit(k) THEN ScalarEntry(Digit(k), value) ELSE idx[i]]
    ELSE Append(idx, ScalarEntry(Digit(k), value))

update_chunk_unsanitized(D, F, idx, uuid, chunk_idx, new_data) ==
    LET fail == [ok |-> FALSE, raised |-> FALSE, files |-> F, index |-> idx]
    IN  IF uuid = "" \/ chunk_idx < 0 THEN fail
        ELSE IF ~InIndex(idx, uuid) THEN fail
        ELSE LET entry == EntryOf(idx, uuid)
                 metadata_path == PathOf(entry.path)
                 w == Walk(D, metadata_path)
                 adjusted_idx == IF chunk_idx > 0 THEN chunk_idx - 1 ELSE chunk_idx
                 san == sanitize_relative_path_str(new_data)
                 value == new_data
             IN  \* entry.get on a string raises AttributeError
                 IF entry.type = "scalar" THEN [fail EXCEPT !.raised = TRUE]
                 ELSE IF ~Exists(D, F, metadata_path) THEN fail
                 ELSE IF w.p = index_path
                 THEN IF adjusted_idx < 0 \/ adjusted_idx >= Len(idx) THEN fail
                      ELSE IF FALSE THEN fail
                      ELSE [ok |-> TRUE, raised |-> FALSE, files |-> F,
                            index |-> SetKey(idx, adjusted_idx, value)]
                 \* open(metadata_path, 'r') on a directory raises; caught, False
                 ELSE IF w.p \notin DOMAIN F THEN fail
                 ELSE IF F[w.p] = Torn THEN fail        \* json.load raises; caught
                 ELSE LET chunks == F[w.p]
                      IN  IF adjusted_idx < 0 \/ adjusted_idx >= Len(chunks) THEN fail
                          ELSE IF FALSE THEN fail
                          ELSE [ok |-> TRUE, raised |-> FALSE,
                                files |-> WriteFile(F, w.p,
                                            [chunks EXCEPT ![adjusted_idx + 1] = value]),
                                index |-> idx]

update_chunk_one_based(D, F, idx, uuid, chunk_idx, new_data) ==
    LET fail == [ok |-> FALSE, raised |-> FALSE, files |-> F, index |-> idx]
    IN  IF uuid = "" \/ chunk_idx < 0 THEN fail
        ELSE IF ~InIndex(idx, uuid) THEN fail
        ELSE LET entry == EntryOf(idx, uuid)
                 metadata_path == PathOf(entry.path)
                 w == Walk(D, metadata_path)
                 adjusted_idx == chunk_idx - 1
                 san == sanitize_relative_path_str(new_data)
                 value == IF adjusted_idx = 2 THEN san.val ELSE new_data
             IN  \* entry.get on a string raises AttributeError
                 IF entry.type = "scalar" THEN [fail EXCEPT !.raised = TRUE]
                 ELSE IF ~Exists(D, F, metadata_path) THEN fail
                 ELSE IF w.p = index_path
                 THEN IF adjusted_idx < 0 \/ adjusted_idx >= Len(idx) THEN fail
                      ELSE IF adjusted_idx = 2 /\ ~san.ok THEN fail
                      ELSE [ok |-> TRUE, raised |-> FALSE, files |-> F,
                            index |-> SetKey(idx, adjusted_idx, value)]
                 \* open(metadata_path, 'r') on a directory raises; caught, False
                 ELSE IF w.p \notin DOMAIN F THEN fail
                 ELSE IF F[w.p] = Torn THEN fail        \* json.load raises; caught
                 ELSE LET chunks == F[w.p]
                      IN  IF adjusted_idx < 0 \/ adjusted_idx >= Len(chunks) THEN fail
                          ELSE IF adjusted_idx = 2 /\ ~san.ok THEN fail
                          ELSE [ok |-> TRUE, raised |-> FALSE,
                                files |-> WriteFile(F, w.p,
                                            [chunks EXCEPT ![adjusted_idx + 1] = value]),
                                index |-> idx]

update_chunk(D, F, idx, uuid, chunk_idx, new_data) ==
    LET fail == [ok |-> FALSE, raised |-> FALSE, files |-> F, index |-> idx]
    IN  IF uuid = "" \/ chunk_idx < 0 THEN fail
        ELSE IF ~InIndex(idx, uuid) THEN fail
        ELSE LET entry == EntryOf(idx, uuid)
                 metadata_path == PathOf(entry.path)
                 w == Walk(D, metadata_path)
                 adjusted_idx == IF chunk_idx > 0 THEN chunk_idx - 1 ELSE chunk_idx
                 san == sanitize_relative_path_str(new_data)
                 value == IF adjusted_idx = 2 THEN san.val ELSE new_data
             IN  \* entry.get on a string raises AttributeError
                 IF entry.type = "scalar" THEN [fail EXCEPT !.raised = TRUE]
                 ELSE IF ~Exists(D, F, metadata_path) THEN fail
                 ELSE IF w.p = index_path
                 THEN IF adjusted_idx < 0 \/ adjusted_idx >= Len(idx) THEN fail
                      ELSE IF adjusted_idx = 2 /\ ~san.ok THEN fail
                      ELSE [ok |-> TRUE, raised |-> FALSE, files |-> F,
                            index |-> SetKey(idx, adjusted_idx, value)]
                 \* open(metadata_path, 'r') on a directory raises; caught, False
                 ELSE IF w.p \notin DOMAIN F THEN fail
                 ELSE IF F[w.p] = Torn THEN fail        \* json.load raises; caught
                 ELSE LET chunks == F[w.p]
                      IN  IF adjusted_idx < 0 \/ adjusted_idx >= Len(chunks) THEN fail
                          ELSE IF adjusted_idx = 2 /\ ~san.ok THEN fail
                          ELSE [ok |-> TRUE, raised |-> FALSE,
                                files |-> WriteFile(F, w.p,
                                            [chunks EXCEPT ![adjusted_idx + 1] = value]),
                                index |-> idx]

(***************************************************************************)
(* FSAdapter.delete_file.  An exception of unlink or rmtree is caught and  *)
(* the call returns None: reported here as ok = FALSE.                     *)
(***************************************************************************)
RmTree(D, p) == {q \in D : q # p /\ ~IsUnder(q, p)}

RmTreeFiles(F, p) == Without(F, {q \in DOMAIN F : IsUnder(q, p)})

delete_file_strict(D, F, idx, uuid) ==
    LET unchanged == [ok |-> FALSE, raised |-> FALSE, dirs |-> D, files |-> F, index |-> idx]
        done(D2, F2, idx2) ==
            [ok |-> TRUE, raised |-> FALSE, dirs |-> D2, files |-> F2, index |-> idx2]
    IN  IF uuid = "" \/ ~InIndex(idx, uuid) THEN unchanged
        ELSE LET entry == EntryOf(idx, uuid)
                 metadata_path == PathOf(entry.path)
                 dir_path == IF entry.dir_path # EmptyStr THEN PathOf(entry.dir_path)
                             ELSE IF metadata_path = <<>> THEN <<>>
                             ELSE Front(metadata_path)
                 wm == Walk(D, metadata_path)
                 wd == Walk(D, dir_path)
                 hasMeta == entry.path # EmptyStr /\ Exists(D, F, metadata_path)
                 removed == RemoveEntry(idx, uuid)
                 \* metadata_path.unlink(); on the index document, the save
                 \* that follows writes it anew
                 unlinked == IF wm.p \in DOMAIN F THEN done(D, Without(F, {wm.p}), removed)
                             ELSE IF wm.p = index_path THEN done(D, F, removed)
                             ELSE unchanged
             IN  \* entry.get on a string raises AttributeError
                 IF entry.type = "scalar" THEN [unchanged EXCEPT !.raised = TRUE]
                 ELSE IF entry.type = "file"
                 THEN IF hasMeta THEN unlinked ELSE unchanged
                 ELSE IF entry.type = "folder"
                 THEN IF Exists(D, F, dir_path)
                      THEN IF wd.p \in D
                           THEN done(RmTree(D, wd.p), RmTreeFiles(F, wd.p), removed)
                           ELSE unchanged
                      ELSE IF hasMeta THEN unlinked
                      ELSE unchanged
                 ELSE done(D, F, removed)

delete_file(D, F, idx, uuid) ==
    LET unchanged == [ok |-> FALSE, raised |-> FALSE, dirs |-> D, files |-> F, index |-> idx]
        done(D2, F2, idx2) ==
            [ok |-> TRUE, raised |-> FALSE, dirs |-> D2, files |-> F2, index |-> idx2]
    IN  IF uuid = "" \/ ~InIndex(idx, uuid) THEN unchanged
        ELSE LET entry == EntryOf(idx, uuid)
                 metadata_path == PathOf(entry.path)
                 dir_path == IF entry.dir_path # EmptyStr THEN PathOf(entry.dir_path)
                             ELSE IF metadata_path = <<>> THEN <<>>
                             ELSE Front(metadata_path)
                 wm == Walk(D, metadata_path)
                 wd == Walk(D, dir_path)
                 hasMeta == entry.path # EmptyStr /\ Exists(D, F, metadata_path)
                 removed == RemoveEntry(idx, uuid)
                 \* metadata_path.unlink(); on the index document, the save
                 \* that follows writes it anew
                 unlinked == IF wm.p \in DOMAIN F THEN done(D, Without(F, {wm.p}), removed)
                             ELSE IF wm.p = index_path THEN done(D, F, removed)
                             ELSE unchanged
             IN  \* entry.get on a string raises AttributeError
                 IF entry.type = "scalar" THEN [unchanged EXCEPT !.raised = TRUE]
                 ELSE IF entry.type = "file"
                 THEN IF hasMeta THEN unlinked ELSE done(D, F, removed)
                 ELSE IF entry.type = "folder"
                 THEN IF Exists(D, F, dir_path)
                      THEN IF wd.p \in D
                           THEN done(RmTree(D, wd.p), RmTreeFiles(F, wd.p), removed)
                           ELSE unchanged
                      ELSE IF hasMeta THEN unlinked
                      ELSE done(D, F, removed)
                 ELSE done(D, F, removed)

(***************************************************************************)
(* FSAdapter.get_ofsf.  Each entry contributes the 14 fields of its record *)
(* file, nothing when reading it raises, and for a folder without a valid  *)
(* record the fallback list built from the index entry.                    *)
(***************************************************************************)
PathParent(path) == IF path = <<>> THEN <<>> ELSE Front(path)

\* "" if str(p) == "." else str(p)
StrOrEmpty(path) == PathStr(path)

FolderFallback(D, F, e) ==
    LET metadata_path == PathOf(e.path)
        name0 == e.name
        psan == sanitize_relative_path_str(e.parent_path)
        parent0 == IF e.parent_path # EmptyStr THEN psan.val ELSE EmptyStr
        folder_path == PathOf(e.dir_path)
        useDir == e.dir_path # EmptyStr /\ Exists(D, F, folder_path)
        useMeta == ~useDir /\ e.path # EmptyStr /\ Exists(D, F, PathParent(metadata_path))
        anchor == IF useDir THEN folder_path ELSE PathParent(metadata_path)
        relative_path == SubSeq(anchor, Len(base_path) + 1, Len(anchor))
        folder_name ==
            IF useDir
            THEN IF relative_path # <<>>
                 THEN IF name0 # EmptyStr THEN name0 ELSE PathName(relative_path)
                 ELSE PathName(folder_path)
            ELSE IF useMeta /\ name0 = EmptyStr THEN PathName(anchor)
            ELSE name0
        parent_path ==
            IF (useDir \/ useMeta) /\ parent0 = EmptyStr
            THEN StrOrEmpty(PathParent(relative_path))
            ELSE parent0
    IN  \* a ValueError of the sanitizer or of relative_to skips the entry
        IF e.parent_path # EmptyStr /\ ~psan.ok THEN <<>>
        ELSE IF (useDir \/ useMeta) /\ ~IsPrefix(base_path, anchor) THEN <<>>
        ELSE <<FolderType, folder_name, parent_path,
               EmptyStr, EmptyStr, EmptyStr, EmptyStr, EmptyStr,
               EmptyStr, EmptyStr, EmptyStr, EmptyStr, e.uuid>>

EntryOfsf(D, F, e) ==
    LET metadata_path == PathOf(e.path)
        w == Walk(D, metadata_path)
        present == e.path # EmptyStr /\ Exists(D, F, metadata_path)
        readable == present /\ w.p \in DOMAIN F
        loaded == F[w.p]
        valid == readable /\ loaded # Torn /\ Len(loaded) = CHUNK_SIZE
        san == sanitize_relative_path_str(loaded[3])
        chunks == [loaded EXCEPT ![3] = san.val]
    IN  IF e.type = "scalar" THEN <<>>            \* entry.get raises, caught
        \* open() of a directory raises; the index document is not a list
        ELSE IF present /\ ~readable THEN <<>>
        ELSE IF readable /\ loaded = Torn THEN <<>>     \* json.load raises
        ELSE IF valid /\ ~san.ok THEN <<>>        \* the sanitizer raises
        ELSE IF valid THEN chunks
        ELSE IF e.type = "folder" THEN FolderFallback(D, F, e)
        ELSE <<>>

RECURSIVE get_ofsf_from(_, _, _, _)
get_ofsf_from(D, F, idx, i) ==
    IF i > Len(idx) THEN <<>>
    ELSE EntryOfsf(D, F, idx[i]) \o get_ofsf_from(D, F, idx, i + 1)

get_ofsf(D, F, idx) == get_ofsf_from(D, F, idx, 1)

(***************************************************************************)
(* The inputs of the calls.                                                *)
(***************************************************************************)
Uuids == {"u1", "u2", "u3"}
UuidRank(u) == CASE u = "u1" -> 1 [] u = "u2" -> 2 [] u = "u3" -> 3

TypeT == <<".", "t">>
TypeP == <<".", "p">>
AddTypes == {EmptyStr, TypeT, TypeP, FolderType}

NameN == <<"n">>
\* no name starts with a slash, and none climbs above ./files
Payload == <<"x">>

MkRecord(t, n, p) == <<t, n, p>> \o [i \in 1..(CHUNK_SIZE - 3) |-> Payload]

ShortRecord == [i \in 1..(CHUNK_SIZE - 1) |-> Payload]

\* the records the caller adds: every type under the plain name, in the root
\* and in a subdirectory; the names with a separator; a parent that climbs;
\* a record that is one field short
AddRecords ==
    {MkRecord(t, NameN, p) : t \in AddTypes, p \in {EmptyStr, <<"/", "n", "/">>}}
        \cup {MkRecord(t, <<".", ".", "/", "n">>, EmptyStr) : t \in {TypeT, FolderType}}
        \cup {MkRecord(EmptyStr, <<"n", "/", "n">>, EmptyStr)}
        \cup {MkRecord(TypeT, NameN, DotDot)}
        \cup {ShortRecord}

PatchIdx == {3, 15}
PatchValues == {<<"p">>, DotDot}

Alphabet == {Slash, Backslash, Dot, Space, "n"}

StringsOver(A, n) == UNION {[1..k -> A] : k \in 0..n}

Strings(n) == StringsOver(Alphabet, n)

(***************************************************************************)
(* The store, driven by one caller issuing one call at a time.             *)
(***************************************************************************)
\* the files and directories under the user root
NodesUnderRoot(D, F) ==
    {p \in D : IsUnder(p, base_path)} \cup {p \in DOMAIN F : IsUnder(p, base_path)}

\* the callers of the step-by-step runs, and a caller that is not in a call:
\* at counts the steps the call completed, result is "" while it runs, and
\* before remembers how the caller's previous call ended
Procs == {1, 2}

NoBefore == [op |-> "none", uuid |-> "", at |-> 0, result |-> ""]

NoProcCall ==
    [op |-> "none", uuid |-> "", chunks |-> <<>>, at |-> 0, index |-> <<>>,
     target |-> <<>>, rel |-> EmptyStr, name |-> EmptyStr, result |-> "",
     before |-> NoBefore]

NoCalls == [p \in Procs |-> NoProcCall]

NoCall ==
    [op |-> "none", uuid |-> "", kind |-> "", type |-> EmptyStr, name |-> EmptyStr,
     resolved |-> FALSE, rel |-> EmptyStr, target |-> <<>>,
     resName |-> EmptyStr, resPath |-> EmptyStr, idx |-> 0, val |-> EmptyStr,
     out |-> <<>>]

NoSan == [run |-> FALSE, ok |-> TRUE, val |-> EmptyStr]

\* no request: intents are the operations of the request body, pos counts
\* the ones the loop has finished, errors holds the operation numbers the
\* error list names, responses the status of each response_data item
NoBatch == [intents |-> <<>>, pos |-> 0, errors |-> <<>>, responses |-> <<>>]

Init ==
    /\ dirs = InitDirs
    /\ files = <<>>
    /\ index = <<>>
    /\ pc = "idle"
    /\ nops = 0
    /\ lastCall = NoCall
    /\ snap = {}
    /\ sanIn = EmptyStr
    /\ sanOut = NoSan
    /\ calls = NoCalls
    /\ batch = NoBatch

\* adapter.add_file(uuid, chunks)
Add(uuid, chunks) ==
    /\ pc = "idle"
    /\ nops < MaxOps
    /\ LET r == add_file(dirs, files, load_index(index), uuid, chunks)
           validated == Len(chunks) = CHUNK_SIZE /\ ~InIndex(index, uuid)
           ns == normalize_subpath(dirs, files, ParentOf(chunks))
           resolved == validated /\ ns.kind = "ok"
       IN  /\ dirs' = r.dirs
           /\ files' = r.files
           /\ index' = index_after(index, r.index)
           /\ pc' = IF r.kind = "hang" THEN "hung" ELSE "idle"
           /\ lastCall' = [NoCall EXCEPT
                             !.op = "add", !.uuid = uuid, !.kind = r.kind,
                             !.type = IF resolved THEN TypeOf(chunks) ELSE EmptyStr,
                             !.name = IF resolved THEN NameOf(chunks) ELSE EmptyStr,
                             !.resolved = resolved,
                             !.rel = IF resolved THEN ns.rel ELSE EmptyStr,
                             !.target = IF resolved THEN ns.target ELSE <<>>,
                             !.resName = r.name, !.resPath = r.path]
    /\ nops' = nops + 1
    /\ snap' = NodesUnderRoot(dirs, files)
    /\ UNCHANGED <<sanIn, sanOut, calls, batch>>

\* adapter.update_chunk(uuid, chunk_idx, new_data)
Patch(uuid, chunk_idx, new_data) ==
    /\ pc = "idle"
    /\ nops < MaxOps
    /\ LET r == update_chunk(dirs, files, load_index(index), uuid, chunk_idx, new_data)
       IN  /\ files' = r.files
           /\ index' = index_after(index, r.index)
           /\ lastCall' = [NoCall EXCEPT
                             !.op = "patch", !.uuid = uuid, !.idx = chunk_idx,
                             !.val = new_data,
                             !.kind = IF r.raised THEN "AttributeError"
                                      ELSE IF r.ok THEN "ok" ELSE "fail"]
    /\ nops' = nops + 1
    /\ snap' = NodesUnderRoot(dirs, files)
    /\ UNCHANGED <<dirs, pc, sanIn, sanOut, calls, batch>>

\* adapter.delete_file(uuid)
Delete(uuid) ==
    /\ pc = "idle"
    /\ nops < MaxOps
    /\ LET r == delete_file(dirs, files, load_index(index), uuid)
       IN  /\ dirs' = r.dirs
           /\ files' = r.files
           /\ index' = index_after(index, r.index)
           /\ lastCall' = [NoCall EXCEPT
                             !.op = "delete", !.uuid = uuid,
                             !.kind = IF r.raised THEN "AttributeError"
                                      ELSE IF r.ok THEN "ok" ELSE "fail"]
    /\ nops' = nops + 1
    /\ snap' = NodesUnderRoot(dirs, files)
    /\ UNCHANGED <<pc, sanIn, sanOut, calls, batch>>

\* adapter.get_ofsf(): out is the array the call returns; index.items() on a
\* list raises AttributeError outside the try of line 386
List ==
    /\ pc = "idle"
    /\ nops < MaxOps
    /\ lastCall' =
          IF load_index(index) = ListDoc
          THEN [NoCall EXCEPT !.op = "list", !.kind = "AttributeError"]
          ELSE [NoCall EXCEPT !.op = "list", !.kind = "ok",
                              !.out = get_ofsf(dirs, files, load_index(index))]
    /\ nops' = nops + 1
    /\ snap' = NodesUnderRoot(dirs, files)
    /\ UNCHANGED <<dirs, files, index, pc, sanIn, sanOut, calls, batch>>

\* Uuids are opaque: the caller takes the first unused one for a new item,
\* or repeats one that is in use.
CallerUuids(idx) ==
    {u \in Uuids : InIndex(idx, u)}
        \cup {u \in Uuids : ~InIndex(idx, u) /\ \A v \in Uuids : InIndex(idx, v) \/ UuidRank(u) <= UuidRank(v)}

Next ==
    \/ \E uuid \in CallerUuids(index), chunks \in AddRecords : Add(uuid, chunks)
    \/ \E uuid \in Uuids, k \in PatchIdx, v \in PatchValues : Patch(uuid, k, v)
    \/ \E uuid \in Uuids : Delete(uuid)

Spec == Init /\ [][Next]_vars

(***************************************************************************)
(* The store after two calls on the fresh store: a folder n, and a file n  *)
(* inside it.  Runs that start here reach, within MaxOps calls, the states *)
(* that need five calls from the fresh store.                              *)
(***************************************************************************)
SeedFolder == add_file(InitDirs, <<>>, <<>>, "u1", MkRecord(FolderType, NameN, EmptyStr))

SeedFile ==
    add_file(SeedFolder.dirs, SeedFolder.files, SeedFolder.index, "u2",
             MkRecord(EmptyStr, NameN, <<"/", "n", "/">>))

SeededInit ==
    /\ dirs = SeedFile.dirs
    /\ files = SeedFile.files
    /\ index = SeedFile.index
    /\ pc = "idle"
    /\ nops = 0
    /\ lastCall = NoCall
    /\ snap = {}
    /\ sanIn = EmptyStr
    /\ sanOut = NoSan
    /\ calls = NoCalls
    /\ batch = NoBatch

SeededSpec == SeededInit /\ [][Next]_vars

(***************************************************************************)
(* The seeded store under patches of every kind of field index: negative,  *)
(* 0, 1, inside the record, its last field, and past it.  The values are   *)
(* one the sanitizer rejects and one it rewrites.  The caller also adds a  *)
(* plain file and a file whose name climbs out of the user root onto the   *)
(* index document.                                                         *)
(***************************************************************************)
TypeJson == <<".", "j", "s", "o", "n">>

PatchAddRecords ==
    {MkRecord(TypeT, NameN, EmptyStr),
     MkRecord(TypeJson, <<".", ".", "/", "u">>, EmptyStr)}

PatchIdxAll == {-1, 0, 1, 3, 14, 15}

SpaceDotDot == <<Space, ".", ".">>

PatchValuesAll == {DotDot, <<Slash>> \o SpaceDotDot}

PatchNext ==
    \/ \E uuid \in CallerUuids(index), chunks \in PatchAddRecords : Add(uuid, chunks)
    \/ \E uuid \in CallerUuids(index), k \in PatchIdxAll, v \in PatchValuesAll :
          Patch(uuid, k, v)
    \/ \E uuid \in CallerUuids(index) : Delete(uuid)

PatchSpec == SeededInit /\ [][PatchNext]_vars

(***************************************************************************)
(* The calls step by step.  add_file and delete_file hold no lock: between *)
(* two of their file-system and index accesses another caller's access can *)
(* take place, and the process can stop.  The steps of a call, in program  *)
(* order: load is _load_index with the checks before and after it, resolve *)
(* is _normalize_subpath, probe is _get_unique_name, mkdir and write       *)
(* create the item, remove is the unlink or rmtree of delete_file, save is *)
(* _save_index.  The names of the records added here have one component,   *)
(* so a record file is never the index document.                           *)
(***************************************************************************)
FileStepsIndexFirst == <<"load", "resolve", "probe", "save", "write">>

FileSteps == <<"load", "resolve", "probe", "write", "save">>
FolderSteps == <<"load", "resolve", "probe", "mkdir", "write", "save">>
DeleteSteps == <<"load", "remove", "save">>

IsFolderCall(c) == c.op = "add" /\ TypeOf(c.chunks) = FolderType

StepsOf(c) ==
    IF c.op = "delete" THEN DeleteSteps
    ELSE IF IsFolderCall(c) THEN FolderSteps
    ELSE FileSteps

Running(c) == c.op # "none" /\ c.result = ""

AtStep(c, step) == Running(c) /\ StepsOf(c)[c.at + 1] = step

\* the call after one more step; it returns after the last one
Advance(c) ==
    [c EXCEPT !.at = c.at + 1,
              !.result = IF c.at + 1 = Len(StepsOf(c)) THEN "ok" ELSE ""]

\* the call ended by an exception or a failure return
Ends(c, result) == [c EXCEPT !.result = result]

\* filename (line 242), or the folder's name
CallFilename(c) ==
    IF ~IsFolderCall(c) /\ TypeOf(c.chunks) # EmptyStr
    THEN NameOf(c.chunks) \o TypeOf(c.chunks)
    ELSE NameOf(c.chunks)

\* unique_name (lines 200, 245-248); c.name is what the probe returned
CallUniqueName(c) ==
    IF IsFolderCall(c) THEN c.name
    ELSE IF TypeOf(c.chunks) # EmptyStr THEN RemoveAll(c.name, TypeOf(c.chunks))
    ELSE PathStem(PathOf(c.name))

\* folder_path (line 201), file_path (line 250)
CallItemPath(c) == PathJoin(c.target, c.name)

\* metadata_path (line 209), file_path
CallRecordPath(c) ==
    IF IsFolderCall(c) THEN Append(CallItemPath(c), FolderMetaName) ELSE CallItemPath(c)

\* updated_chunks
CallRecord(c) == [c.chunks EXCEPT ![2] = CallUniqueName(c), ![3] = c.rel]

\* index[uuid] = {...} (lines 213-219, 259-264)
CallEntry(c) ==
    IF IsFolderCall(c)
    THEN [uuid |-> c.uuid, type |-> "folder", path |-> PathStr(CallRecordPath(c)),
          dir_path |-> PathStr(CallItemPath(c)), name |-> c.name, parent_path |-> c.rel]
    ELSE [uuid |-> c.uuid, type |-> "file", path |-> PathStr(CallItemPath(c)),
          dir_path |-> EmptyStr, name |-> c.name, parent_path |-> c.rel]

\* the caller's mapping when it saves: what it loaded, with its own change
CallIndex(c) ==
    IF c.op = "add" THEN Append(c.index, CallEntry(c)) ELSE RemoveEntry(c.index, c.uuid)

save_index_merging(on_disk, local) ==
    SelectSeq(on_disk, LAMBDA e : ~InIndex(local, e.uuid)) \o local

\* FSAdapter._save_index: the document is overwritten with the caller's mapping
save_index(on_disk, local) == local

write_record_exclusive(F, path, content) ==
    IF path \in DOMAIN F THEN F ELSE WriteFile(F, path, content)

\* open(path, 'w') and json.dump: the file is created or overwritten
write_record(F, path, content) == WriteFile(F, path, content)

NewCall(op, uuid, chunks, prev) ==
    [NoProcCall EXCEPT !.op = op, !.uuid = uuid, !.chunks = chunks,
                       !.before = [op |-> prev.op, uuid |-> prev.uuid,
                                   at |-> prev.at, result |-> prev.result]]

StartAdd(p, uuid, chunks) ==
    /\ ~Running(calls[p])
    /\ nops < MaxOps
    /\ calls' = [calls EXCEPT ![p] = NewCall("add", uuid, chunks, calls[p])]
    /\ nops' = nops + 1
    /\ UNCHANGED <<dirs, files, index, pc, lastCall, snap, sanIn, sanOut, batch>>

StartDelete(p, uuid) ==
    /\ ~Running(calls[p])
    /\ nops < MaxOps
    /\ calls' = [calls EXCEPT ![p] = NewCall("delete", uuid, <<>>, calls[p])]
    /\ nops' = nops + 1
    /\ UNCHANGED <<dirs, files, index, pc, lastCall, snap, sanIn, sanOut, batch>>

\* lines 167-175 and 341-346
Load(p) ==
    /\ AtStep(calls[p], "load")
    /\ LET c == calls[p]
           loaded == [c EXCEPT !.index = load_index(index)]
       IN  calls' = [calls EXCEPT ![p] =
              IF c.op = "add"
              THEN IF c.uuid = "" \/ Len(c.chunks) # CHUNK_SIZE THEN Ends(c, "ValueError")
                   ELSE IF InIndex(loaded.index, c.uuid) THEN Ends(loaded, "ValueError")
                   ELSE Advance(loaded)
              ELSE IF c.uuid = "" THEN Ends(c, "fail")
                   ELSE IF ~InIndex(loaded.index, c.uuid) THEN Ends(loaded, "fail")
                   ELSE Advance(loaded)]
    /\ UNCHANGED <<dirs, files, index, pc, nops, lastCall, snap, sanIn, sanOut, batch>>

\* line 180
Resolve(p) ==
    /\ AtStep(calls[p], "resolve")
    /\ LET c == calls[p]
           ns == normalize_subpath(dirs, files, ParentOf(c.chunks))
       IN  /\ dirs' = ns.dirs
           /\ calls' = [calls EXCEPT ![p] =
                 IF ns.kind # "ok" THEN Ends(c, ns.kind)
                 ELSE Advance([c EXCEPT !.target = ns.target, !.rel = ns.rel])]
    /\ UNCHANGED <<files, index, pc, nops, lastCall, snap, sanIn, sanOut, batch>>

\* lines 200 and 243
Probe(p) ==
    /\ AtStep(calls[p], "probe")
    /\ LET c == calls[p]
           un == get_unique_name(dirs, files, c.target, CallFilename(c), IsFolderCall(c))
       IN  calls' = [calls EXCEPT ![p] =
              IF ~un.ok THEN Ends(c, "hang") ELSE Advance([c EXCEPT !.name = un.name])]
    /\ UNCHANGED <<dirs, files, index, pc, nops, lastCall, snap, sanIn, sanOut, batch>>

Mkdir_exist_ok(p) ==
    /\ AtStep(calls[p], "mkdir")
    /\ LET c == calls[p]
           w == Walk(dirs, CallItemPath(c))
           refused == ~w.ok \/ w.p \in DOMAIN files \/ w.p = index_path
       IN  /\ dirs' = IF refused THEN dirs ELSE dirs \cup {w.p}
           /\ calls' = [calls EXCEPT ![p] =
                 IF refused THEN Ends(c, "RuntimeError") ELSE Advance(c)]
    /\ UNCHANGED <<files, index, pc, nops, lastCall, snap, sanIn, sanOut, batch>>

\* line 203: folder_path.mkdir(exist_ok=False)
Mkdir(p) ==
    /\ AtStep(calls[p], "mkdir")
    /\ LET c == calls[p]
           w == Walk(dirs, CallItemPath(c))
           refused == ~w.ok \/ w.p \in dirs \/ w.p \in DOMAIN files \/ w.p = index_path
       IN  /\ dirs' = IF refused THEN dirs ELSE dirs \cup {w.p}
           /\ calls' = [calls EXCEPT ![p] =
                 IF refused THEN Ends(c, "RuntimeError") ELSE Advance(c)]
    /\ UNCHANGED <<files, index, pc, nops, lastCall, snap, sanIn, sanOut, batch>>

\* lines 210-211 and 256-257
Write(p) ==
    /\ AtStep(calls[p], "write")
    /\ LET c == calls[p]
           w == Walk(dirs, CallRecordPath(c))
           refused == ~w.ok \/ w.p \in dirs \/ w.p = index_path
       IN  /\ files' = IF refused THEN files ELSE write_record(files, w.p, CallRecord(c))
           /\ calls' = [calls EXCEPT ![p] =
                 IF refused THEN Ends(c, "RuntimeError") ELSE Advance(c)]
    /\ UNCHANGED <<dirs, index, pc, nops, lastCall, snap, sanIn, sanOut, batch>>

\* lines 348-368: the storage part of delete_file, on the entry the call loaded
Remove(p) ==
    /\ AtStep(calls[p], "remove")
    /\ LET c == calls[p]
           r == delete_file(dirs, files, c.index, c.uuid)
       IN  /\ dirs' = r.dirs
           /\ files' = r.files
           /\ calls' = [calls EXCEPT ![p] = IF r.ok THEN Advance(c) ELSE Ends(c, "fail")]
    /\ UNCHANGED <<index, pc, nops, lastCall, snap, sanIn, sanOut, batch>>

\* lines 220, 265, 367 and 371
Save(p) ==
    /\ AtStep(calls[p], "save")
    /\ index' = save_index(index, CallIndex(calls[p]))
    /\ calls' = [calls EXCEPT ![p] = Advance(calls[p])]
    /\ UNCHANGED <<dirs, files, pc, nops, lastCall, snap, sanIn, sanOut, batch>>

\* the process stops between two steps of a call
Crash(p) ==
    /\ Running(calls[p])
    /\ calls' = [calls EXCEPT ![p] = Ends(calls[p], "crashed")]
    /\ UNCHANGED <<dirs, files, index, pc, nops, lastCall, snap, sanIn, sanOut, batch>>

\* the process stops inside _save_index, after open(index_path, 'w') truncated
\* the document: what is left does not parse
CrashInSave(p) ==
    /\ AtStep(calls[p], "save")
    /\ index' = TornIndex
    /\ calls' = [calls EXCEPT ![p] = Ends(calls[p], "crashed in save")]
    /\ UNCHANGED <<dirs, files, pc, nops, lastCall, snap, sanIn, sanOut, batch>>

StepRecords == {MkRecord(TypeT, NameN, EmptyStr), MkRecord(FolderType, NameN, EmptyStr)}

(***************************************************************************)
(* One caller whose process can stop at any point of a call; the next call *)
(* is issued by the restarted process.                                     *)
(***************************************************************************)
CrashNext ==
    \/ \E uuid \in CallerUuids(index), chunks \in StepRecords : StartAdd(1, uuid, chunks)
    \/ \E uuid \in CallerUuids(index) : StartDelete(1, uuid)
    \/ Load(1)
    \/ Resolve(1)
    \/ Probe(1)
    \/ Mkdir(1)
    \/ Write(1)
    \/ Remove(1)
    \/ Save(1)
    \/ Crash(1)
    \/ CrashInSave(1)

CrashSpec == Init /\ [][CrashNext]_vars

(***************************************************************************)
(* Two callers adding concurrently, each under its own fresh uuids.        *)
(***************************************************************************)
ProcUuid(p) == IF p = 1 THEN "u1" ELSE "u2"

\* the records of a caller carry its own payload in the last field
RaceRecords(p) == {[r EXCEPT ![CHUNK_SIZE] = <<Digit(p)>>] : r \in StepRecords}

RaceNext ==
    \E p \in Procs :
        \/ \E chunks \in RaceRecords(p) : StartAdd(p, ProcUuid(p), chunks)
        \/ Load(p)
        \/ Resolve(p)
        \/ Probe(p)
        \/ Mkdir(p)
        \/ Write(p)
        \/ Save(p)

RaceSpec == Init /\ [][RaceNext]_vars

(***************************************************************************)
(* list on a store of two items, u1 then u2, whose record files are as the *)
(* adapter wrote them or as something else left them: rewritten by a patch *)
(* of the parent path, one field short, torn by an interrupted write,      *)
(* removed, or replaced by a directory.                                    *)
(***************************************************************************)
\* the i-th item is named i and carries i in its last field
ListRecord(type, i) ==
    [MkRecord(type, <<Digit(i)>>, EmptyStr) EXCEPT ![CHUNK_SIZE] = <<Digit(i)>>]

Damage(D, F, idx, uuid, cond) ==
    LET q == Walk(D, PathOf(EntryOf(idx, uuid).path)).p
    IN  CASE cond = "valid" -> [dirs |-> D, files |-> F]
          [] cond = "patched" ->
                [dirs |-> D,
                 files |-> update_chunk(D, F, idx, uuid, 3, <<Slash>> \o SpaceDotDot).files]
          [] cond = "short" -> [dirs |-> D, files |-> WriteFile(F, q, Front(F[q]))]
          [] cond = "torn" -> [dirs |-> D, files |-> WriteFile(F, q, Torn)]
          [] cond = "missing" -> [dirs |-> D, files |-> Without(F, {q})]
          [] cond = "directory" -> [dirs |-> D \cup {q}, files |-> Without(F, {q})]

\* two adds on the empty store, then each record brought into its condition
ListInit ==
    /\ \E t1 \in {TypeT, FolderType}, t2 \in {TypeT, FolderType},
          c1 \in {"valid", "patched", "short", "torn", "missing", "directory"},
          c2 \in {"valid", "patched", "short", "torn", "missing", "directory"} :
          \E a1 \in {add_file(InitDirs, <<>>, <<>>, "u1", ListRecord(t1, 1))} :
          \E a2 \in {add_file(a1.dirs, a1.files, a1.index, "u2", ListRecord(t2, 2))} :
          \E d1 \in {Damage(a2.dirs, a2.files, a2.index, "u1", c1)} :
          \E d2 \in {Damage(d1.dirs, d1.files, a2.index, "u2", c2)} :
             /\ dirs = d2.dirs
             /\ files = d2.files
             /\ index = a2.index
    /\ pc = "idle"
    /\ nops = 0
    /\ lastCall = NoCall
    /\ snap = {}
    /\ sanIn = EmptyStr
    /\ sanOut = NoSan
    /\ calls = NoCalls
    /\ batch = NoBatch

ListSpec == ListInit /\ [][List]_vars

(***************************************************************************)
(* The seeded store whose index document was lost or damaged while the     *)
(* items stayed on disk, and the calls of one caller on it.                *)
(***************************************************************************)
DegradedDocs == {MissingIndex, TornIndex, ListDoc}

DegradedInit ==
    /\ dirs = SeedFile.dirs
    /\ files = SeedFile.files
    /\ index \in DegradedDocs
    /\ pc = "idle"
    /\ nops = 0
    /\ lastCall = NoCall
    /\ snap = {}
    /\ sanIn = EmptyStr
    /\ sanOut = NoSan
    /\ calls = NoCalls
    /\ batch = NoBatch

DegradedNext ==
    \/ \E uuid \in Uuids, chunks \in StepRecords : Add(uuid, chunks)
    \/ \E uuid \in Uuids, k \in PatchIdx, v \in PatchValues : Patch(uuid, k, v)
    \/ \E uuid \in Uuids : Delete(uuid)
    \/ List

DegradedSpec == DegradedInit /\ [][DegradedNext]_vars

(***************************************************************************)
(* FSAdapter.__init__ on a store of the legacy layout or of the new one.   *)
(* The items of the seeded store are on disk.  The index document is       *)
(* absent, holds the entry of the folder alone, or is torn; the legacy     *)
(* index ./files/<user>/index.json is absent, holds both entries, is torn, *)
(* or is a directory.  When the document is absent, a legacy index that    *)
(* loads is dumped into it and unlinked; one that raises leaves the empty  *)
(* mapping in it and stays.                                                *)
(***************************************************************************)
legacy_index == Append(base_path, <<"i", "n", "d", "e", "x", ".", "j", "s", "o", "n">>)

construct_always_migrates(D, F, doc) ==
    LET made == D \cup {<<>>, root_path, base_path}
        saved_empty == [dirs |-> made, files |-> F, index |-> <<>>]
    IN  IF legacy_index \in DOMAIN F
        THEN IF F[legacy_index] = TornIndex THEN saved_empty
             ELSE [dirs |-> made, files |-> Without(F, {legacy_index}),
                   index |-> F[legacy_index]]
        ELSE IF doc # MissingIndex THEN [dirs |-> made, files |-> F, index |-> doc]
        ELSE saved_empty

construct(D, F, doc) ==
    LET made == D \cup {<<>>, root_path, base_path}
        saved_empty == [dirs |-> made, files |-> F, index |-> <<>>]
    IN  IF doc # MissingIndex THEN [dirs |-> made, files |-> F, index |-> doc]
        ELSE IF legacy_index \in DOMAIN F
        THEN \* json.load of a torn file raises: line 38, the legacy file stays
             IF F[legacy_index] = TornIndex THEN saved_empty
             ELSE [dirs |-> made, files |-> Without(F, {legacy_index}),
                   index |-> F[legacy_index]]
        \* open() of a directory raises (line 38); no legacy index: line 45
        ELSE saved_empty

\* fs_adapter.FSAdapter(name)
Construct ==
    /\ pc = "new"
    /\ dirs' = construct(dirs, files, index).dirs
    /\ files' = construct(dirs, files, index).files
    /\ index' = construct(dirs, files, index).index
    /\ pc' = "idle"
    /\ UNCHANGED <<nops, lastCall, snap, sanIn, sanOut, calls, batch>>

ConstructInit ==
    /\ \E legacy \in {"absent", "mapping", "torn", "directory"}, seed \in {SeedFile} :
          /\ dirs = IF legacy = "directory" THEN seed.dirs \cup {legacy_index}
                    ELSE seed.dirs
          /\ files = IF legacy = "mapping"
                     THEN WriteFile(seed.files, legacy_index, seed.index)
                     ELSE IF legacy = "torn"
                     THEN WriteFile(seed.files, legacy_index, TornIndex)
                     ELSE seed.files
    /\ index \in {MissingIndex, TornIndex, SeedFolder.index}
    /\ pc = "new"
    /\ nops = 0
    /\ lastCall = NoCall
    /\ snap = {}
    /\ sanIn = EmptyStr
    /\ sanOut = NoSan
    /\ calls = NoCalls
    /\ batch = NoBatch

ConstructSpec == ConstructInit /\ [][Construct \/ DegradedNext]_vars

(***************************************************************************)
(* update_user_file_system of src/server.py: one request carries a list of *)
(* intents, run in order against one adapter.  Each turn of the loop is    *)
(* wrapped in try/except: an exception of the adapter, a failure return, a *)
(* missing uuid or an unknown command appends to the error list and the    *)
(* loop goes on.  An add that never returns leaves the loop inside it.     *)
(***************************************************************************)
Intent(command, uuid, chunks, idx, val) ==
    [command |-> command, uuid |-> uuid, chunks |-> chunks, idx |-> idx, val |-> val]

BatchIntents ==
    {Intent("UUIDa", "u1", MkRecord(TypeT, NameN, EmptyStr), 0, EmptyStr),
     Intent("UUIDa", "u2", MkRecord(TypeT, NameN, EmptyStr), 0, EmptyStr),
     Intent("UUIDa", "u3", ShortRecord, 0, EmptyStr),
     Intent("UUIDr", "u1", <<>>, 3, DotDot),
     Intent("UUIDr", "u1", <<>>, 4, <<"p">>),
     Intent("UUIDd", "u1", <<>>, 0, EmptyStr),
     Intent("UUIDx", "u1", <<>>, 0, EmptyStr),
     Intent("UUIDd", "", <<>>, 0, EmptyStr)}

BatchInit ==
    /\ dirs = InitDirs
    /\ files = <<>>
    /\ index = <<>>
    /\ pc = "idle"
    /\ nops = 0
    /\ lastCall = NoCall
    /\ snap = {}
    /\ sanIn = EmptyStr
    /\ sanOut = NoSan
    /\ calls = NoCalls
    /\ \E intents \in [1..MaxOps -> BatchIntents] :
          batch = [NoBatch EXCEPT !.intents = intents]

\* the loop is at an intent (line 78)
InLoop == pc = "idle" /\ batch.pos < Len(batch.intents)

CurrentIntent == batch.intents[batch.pos + 1]

continue_after_error(b, failed, status) ==
    [b EXCEPT !.pos = @ + 1,
              !.errors = IF failed THEN Append(@, b.pos) ELSE @,
              !.responses = IF status # "" THEN Append(@, status) ELSE @]

\* lines 89-91, 96-98 and 138-139: the intent reaches no adapter call
BatchReject ==
    /\ InLoop
    /\ \/ CurrentIntent.uuid = ""
       \/ CurrentIntent.command \notin {"UUIDa", "UUIDr", "UUIDd"}
       \/ CurrentIntent.command = "UUIDa" /\ CurrentIntent.chunks = <<>>
    /\ batch' = continue_after_error(batch, TRUE, "")
    /\ UNCHANGED <<dirs, files, index, pc, nops, lastCall, snap, sanIn, sanOut, calls>>

\* lines 93-107 and 143-146
BatchAdd ==
    /\ InLoop
    /\ CurrentIntent.uuid # ""
    /\ CurrentIntent.command = "UUIDa"
    /\ CurrentIntent.chunks # <<>>
    /\ LET r == add_file(dirs, files, load_index(index),
                         CurrentIntent.uuid, CurrentIntent.chunks)
       IN  /\ dirs' = r.dirs
           /\ files' = r.files
           /\ index' = index_after(index, r.index)
           /\ pc' = IF r.kind = "hang" THEN "hung" ELSE "idle"
           /\ batch' = IF r.kind = "hang" THEN batch
                       ELSE continue_after_error(batch, r.kind # "ok",
                                                 IF r.kind = "ok" THEN "success" ELSE "")
    /\ UNCHANGED <<nops, lastCall, snap, sanIn, sanOut, calls>>

\* lines 109-126 and 143-146
BatchPatch ==
    /\ InLoop
    /\ CurrentIntent.uuid # ""
    /\ CurrentIntent.command = "UUIDr"
    /\ LET r == update_chunk(dirs, files, load_index(index), CurrentIntent.uuid,
                             CurrentIntent.idx, CurrentIntent.val)
       IN  /\ files' = r.files
           /\ index' = index_after(index, r.index)
           /\ batch' = continue_after_error(batch, ~r.ok,
                           IF r.raised THEN "" ELSE IF r.ok THEN "success" ELSE "failed")
    /\ UNCHANGED <<dirs, pc, nops, lastCall, snap, sanIn, sanOut, calls>>

\* lines 128-137 and 143-146
BatchDelete ==
    /\ InLoop
    /\ CurrentIntent.uuid # ""
    /\ CurrentIntent.command = "UUIDd"
    /\ LET r == delete_file(dirs, files, load_index(index), CurrentIntent.uuid)
       IN  /\ dirs' = r.dirs
           /\ files' = r.files
           /\ index' = index_after(index, r.index)
           /\ batch' = continue_after_error(batch, ~r.ok,
                           IF r.raised THEN "" ELSE IF r.ok THEN "success" ELSE "failed")
    /\ UNCHANGED <<pc, nops, lastCall, snap, sanIn, sanOut, calls>>

BatchNext == BatchReject \/ BatchAdd \/ BatchPatch \/ BatchDelete

BatchSpec == BatchInit /\ [][BatchNext]_vars

(***************************************************************************)
(* The sanitizer alone, on every string over Alphabet up to MaxLen.        *)
(***************************************************************************)
SanInit ==
    /\ dirs = InitDirs
    /\ files = <<>>
    /\ index = <<>>
    /\ pc = "idle"
    /\ nops = 0
    /\ lastCall = NoCall
    /\ snap = {}
    /\ sanIn \in Strings(MaxLen)
    /\ sanOut = NoSan
    /\ calls = NoCalls
    /\ batch = NoBatch

RunSanitize ==
    /\ ~sanOut.run
    /\ sanOut' = [run |-> TRUE, ok |-> sanitize_relative_path_str(sanIn).ok, val |-> sanitize_relative_path_str(sanIn).val]
    /\ UNCHANGED <<sanIn, dirs, files, index, pc, nops, lastCall, snap, calls, batch>>

SanNext == RunSanitize

SanSpec == SanInit /\ [][SanNext]_vars

(***************************************************************************)
(* Helpers of the properties.                                              *)
(***************************************************************************)
\* a lexical path with every ".." resolved against the component before it
RECURSIVE LexFrom(_, _, _)
LexFrom(path, i, cur) ==
    IF i > Len(path) THEN cur
    ELSE IF path[i] = DotDot /\ cur # <<>> THEN LexFrom(path, i + 1, Front(cur))
    ELSE LexFrom(path, i + 1, Append(cur, path[i]))

Physical(path) == LexFrom(path, 1, <<>>)

InsideRoot(p) == IsUnder(p, base_path)

\* the storage of an index entry: the file, or the folder's directory
ItemPath(e) ==
    IF e.type = "folder" THEN Physical(PathOf(e.dir_path)) ELSE Physical(PathOf(e.path))

\* the components of a string under either slash convention
Components(s) == SplitSlash(ReplaceBackslash(s))

HasDotDotComponent(s) == HasPart(Components(s), DotDot)

\* empty, ".", or only slashes and "." components
DenotesRoot(s) == \A i \in 1..Len(Components(s)) : Components(s)[i] \in {EmptyStr, DotStr}

\* the sanitized paths handed to resolve: what sanitize returns for the
\* strings of slashes, spaces and letters up to MaxPathLen
ResolvePaths ==
    {sanitize_relative_path_str(s).val : s \in StringsOver({Slash, Space, "n"}, MaxPathLen)}

(***************************************************************************)
(* C1.  Every physical path the adapter created or recorded in the index   *)
(* (file path, folder directory, folder metadata file) lies inside the     *)
(* user's root directory.                                                  *)
(***************************************************************************)
C1_AllPathsInsideRoot ==
    /\ \A i \in 1..Len(index) :
          /\ InsideRoot(Physical(PathOf(index[i].path)))
          /\ index[i].type = "folder" => InsideRoot(Physical(PathOf(index[i].dir_path)))
    /\ \A p \in (dirs \ InitDirs) \cup DOMAIN files : InsideRoot(p)

(***************************************************************************)
(* C2.  Adding a file whose stem collides with an existing file of the     *)
(* target directory returns name + " (k)" + type for the least k >= 1      *)
(* whose stem is free there.  Stated for names of a single component.      *)
(***************************************************************************)
SuffixedFile(name, k, type) == CounterName(name, k) \o type

StemFree(F, dir, filename) == ~StemTaken({}, F, dir, PathStem(PathOf(filename)))

LeastFreeFile(F, dir, name, type) ==
    LET free == {k \in 1..(Cardinality(DOMAIN F) + 1) :
                    StemFree(F, dir, SuffixedFile(name, k, type))}
    IN  IF free = {} THEN EmptyStr
        ELSE SuffixedFile(name, CHOOSE k \in free : \A j \in free : k <= j, type)

C2_StemCollisionSuffix ==
    [][(/\ lastCall'.op = "add"
        /\ nops' = nops + 1
        /\ lastCall'.resolved
        /\ lastCall'.type # FolderType
        /\ PathOf(lastCall'.name) = <<lastCall'.name>>
        /\ ~StemFree(files, lastCall'.target, lastCall'.name \o lastCall'.type))
       => (/\ lastCall'.kind = "ok"
           /\ lastCall'.resName =
                 LeastFreeFile(files, lastCall'.target, lastCall'.name, lastCall'.type))]_vars

(***************************************************************************)
(* C3.  Every add call terminates: it returns a result or raises.          *)
(***************************************************************************)
C3_AddTerminates == pc # "hung"

(***************************************************************************)
(* C4.  A successful add(uuid, record) followed immediately by             *)
(* delete(uuid) leaves the set of files and directories under the user     *)
(* root as it was before the add.                                          *)
(***************************************************************************)
C4_AddDeleteRestores ==
    [][(/\ lastCall.op = "add"
        /\ lastCall.kind = "ok"
        /\ nops' = nops + 1
        /\ lastCall'.op = "delete"
        /\ lastCall'.uuid = lastCall.uuid
        /\ lastCall'.kind = "ok")
       => NodesUnderRoot(dirs', files') = snap]_vars

(***************************************************************************)
(* C5.  After any sequence of add, patch and delete calls from an empty    *)
(* store, the array list returns has a length that is a multiple of 14.    *)
(***************************************************************************)
C5_ListMultipleOf14 == Len(get_ofsf(dirs, files, index)) % CHUNK_SIZE = 0

(***************************************************************************)
(* C6.  No two distinct uuids of the index have the same physical path     *)
(* (file path, or folder directory).                                       *)
(***************************************************************************)
C6_DistinctPhysicalPaths ==
    \A i, j \in 1..Len(index) : i # j => ItemPath(index[i]) # ItemPath(index[j])

(***************************************************************************)
(* C7.  On every string that has a ".." component, under either slash      *)
(* convention, sanitize fails with the path-traversal error and returns    *)
(* no path.                                                                *)
(***************************************************************************)
C7_DotDotRejected ==
    (sanOut.run /\ HasDotDotComponent(sanIn)) => (~sanOut.ok /\ sanOut.val = EmptyStr)

C7_Witness ==
    /\ sanOut.run
    /\ sanIn = <<"n", Backslash, ".", ".">>
    /\ ~sanOut.ok

(***************************************************************************)
(* C8.  When sanitize succeeds, the output does not begin with "/", has no *)
(* "..", empty or "." component, and is empty only when the input denotes  *)
(* the root.  As claimed, the input denotes the root when it is empty, "." *)
(* or only slashes and "." components (C8_AsClaimed); as the code has it,  *)
(* when it is so once the surrounding whitespace is stripped               *)
(* (C8_SanitizedShape).                                                    *)
(***************************************************************************)
WellFormedOutput(out) ==
    out # EmptyStr =>
        /\ Head(out) # Slash
        /\ \A i \in 1..Len(SplitSlash(out)) :
              SplitSlash(out)[i] \notin {EmptyStr, DotStr, DotDot}

C8_AsClaimed ==
    (sanOut.run /\ sanOut.ok) =>
        /\ WellFormedOutput(sanOut.val)
        /\ sanOut.val = EmptyStr => DenotesRoot(sanIn)

C8_SanitizedShape ==
    (sanOut.run /\ sanOut.ok) =>
        /\ WellFormedOutput(sanOut.val)
        /\ sanOut.val = EmptyStr => DenotesRoot(Strip(ReplaceBackslash(sanIn)))

C8_Witness ==
    /\ sanOut.run
    /\ sanOut.ok
    /\ sanIn = <<Space, Backslash, ".", Space>>
    /\ sanOut.val = EmptyStr

ProbeName(name, k) == IF k = 0 THEN name ELSE CounterName(name, k)

FirstFreeFolder(D, F, dir, name) ==
    LET free == {k \in 0..(Cardinality(D) + Cardinality(DOMAIN F)) :
                    ~Exists(D, F, PathJoin(dir, ProbeName(name, k)))}
    IN  ProbeName(name, CHOOSE k \in free : \A j \in free : k <= j)

C10_FolderProbeOrder ==
    [][(/\ lastCall'.op = "add"
        /\ nops' = nops + 1
        /\ lastCall'.kind = "ok"
        /\ lastCall'.type = FolderType)
       => lastCall'.resName =
             FirstFreeFolder(dirs \cup Prefixes(lastCall'.target), files,
                             lastCall'.target, lastCall'.name)]_vars

C10_Witness ==
    /\ lastCall.op = "add"
    /\ lastCall.kind = "ok"
    /\ lastCall.type = FolderType
    /\ lastCall.name = NameN
    /\ lastCall.resName = <<"n", Space, "(", "2", ")">>
    /\ Len(index) = 3
    /\ index[1].name = NameN
    /\ index[2].name = <<"n", Space, "(", "1", ")">>

(***************************************************************************)
(* Helpers of the patch properties: the record file of an index entry.     *)
(***************************************************************************)
RecordWalk(D, idx, uuid) == Walk(D, PathOf(EntryOf(idx, uuid).path))

\* the uuid is in the index and its record file is on disk, holding a list
HasRecord(D, F, idx, uuid) ==
    /\ InIndex(idx, uuid)
    /\ EntryOf(idx, uuid).type \in {"file", "folder"}
    /\ RecordWalk(D, idx, uuid).ok
    /\ RecordWalk(D, idx, uuid).p \in DOMAIN F

RecordOf(D, F, idx, uuid) == F[RecordWalk(D, idx, uuid).p]

\* the uuid is in the index and nothing is at the path of its record file
RecordMissing(D, F, idx, uuid) ==
    /\ InIndex(idx, uuid)
    /\ EntryOf(idx, uuid).type \in {"file", "folder"}
    /\ ~Exists(D, F, PathOf(EntryOf(idx, uuid).path))

\* the files after one field of the record of uuid was set; offset is 0-based
WithField(D, F, idx, uuid, offset, value) ==
    WriteFile(F, RecordWalk(D, idx, uuid).p,
              [RecordOf(D, F, idx, uuid) EXCEPT ![offset + 1] = value])

PatchStep == lastCall'.op = "patch" /\ nops' = nops + 1

(***************************************************************************)
(* C11.  patch(uuid, 3, v) on an existing item writes the sanitized form   *)
(* of v into 0-based offset 2 of its record and nothing else; when v has a *)
(* ".." component, patch returns failure and the record files and the      *)
(* index are exactly as before the call.                                   *)
(***************************************************************************)
C11_PatchParentPath ==
    [][(PatchStep /\ lastCall'.idx = 3 /\ HasRecord(dirs, files, index, lastCall'.uuid))
       => /\ HasDotDotComponent(lastCall'.val) =>
                (lastCall'.kind = "fail" /\ files' = files /\ index' = index)
          /\ sanitize_relative_path_str(lastCall'.val).ok =>
                /\ lastCall'.kind = "ok"
                /\ files' = WithField(dirs, files, index, lastCall'.uuid, 2,
                                      sanitize_relative_path_str(lastCall'.val).val)]_vars

C11_Witness ==
    /\ lastCall.op = "patch"
    /\ lastCall.uuid = "u2"
    /\ lastCall.idx = 3
    /\ lastCall.val = <<Slash>> \o SpaceDotDot
    /\ lastCall.kind = "ok"
    /\ HasRecord(dirs, files, index, "u2")
    /\ RecordOf(dirs, files, index, "u2")[3] = SpaceDotDot

(***************************************************************************)
(* C12.  When each of the N entries of the index has its record file on    *)
(* disk, holding a list of 14 elements, list returns an array of length    *)
(* exactly 14 * N.                                                         *)
(***************************************************************************)
ValidEntry(D, F, e) ==
    /\ e.type \in {"file", "folder"}
    /\ e.path # EmptyStr
    /\ Walk(D, PathOf(e.path)).ok
    /\ Walk(D, PathOf(e.path)).p \in DOMAIN F
    /\ Len(F[Walk(D, PathOf(e.path)).p]) = CHUNK_SIZE

C12_ListLength ==
    (\A i \in 1..Len(index) : ValidEntry(dirs, files, index[i]))
        => Len(get_ofsf(dirs, files, index)) = CHUNK_SIZE * Len(index)

(***************************************************************************)
(* C17.  patch never modifies the index: whatever the uuid, the field      *)
(* index and the value, and whether it succeeds or fails, the index        *)
(* document after the call equals the one before it.                       *)
(***************************************************************************)
C17_PatchKeepsIndex == [][PatchStep => index' = index]_vars

(***************************************************************************)
(* C18.  patch(uuid, k, v) on an existing item with a 14-field record      *)
(* writes exactly one field and leaves the other 13 unchanged: offset 0    *)
(* when k = 0, offset k - 1 when 1 <= k <= 14; for k < 0 or k >= 15, for   *)
(* an unknown uuid, or when the record file is missing, it returns failure *)
(* without raising and changes no record.  As claimed, every k of 0..14    *)
(* writes (C18_AsClaimed); as the code has it, k = 3 with a value the      *)
(* sanitizer rejects writes nothing and returns failure, and the field     *)
(* written at k = 3 is the sanitized value (C18_PatchWritesOneField).      *)
(***************************************************************************)
PatchOffset(k) == IF k = 0 THEN 0 ELSE k - 1

\* the record of uuid differs at most at the given offset, no other file differs
OnlyFieldChanged(D, F, F2, idx, uuid, offset) ==
    /\ DOMAIN F2 = DOMAIN F
    /\ \A q \in DOMAIN F :
          IF q = RecordWalk(D, idx, uuid).p
          THEN /\ Len(F2[q]) = Len(F[q])
               /\ \A j \in 1..Len(F[q]) : j # offset + 1 => F2[q][j] = F[q][j]
          ELSE F2[q] = F[q]

PatchedItem ==
    /\ PatchStep
    /\ HasRecord(dirs, files, index, lastCall'.uuid)
    /\ Len(RecordOf(dirs, files, index, lastCall'.uuid)) = CHUNK_SIZE

PatchRefusedCase ==
    /\ PatchStep
    /\ \/ PatchedItem /\ (lastCall'.idx < 0 \/ lastCall'.idx >= CHUNK_SIZE + 1)
       \/ ~InIndex(index, lastCall'.uuid)
       \/ RecordMissing(dirs, files, index, lastCall'.uuid)

PatchRefused == lastCall'.kind = "fail" /\ files' = files /\ index' = index

C18_AsClaimed ==
    [][/\ (PatchedItem /\ lastCall'.idx \in 0..CHUNK_SIZE) =>
            /\ lastCall'.kind = "ok"
            /\ OnlyFieldChanged(dirs, files, files', index, lastCall'.uuid,
                                PatchOffset(lastCall'.idx))
       /\ PatchRefusedCase => PatchRefused]_vars

C18_PatchWritesOneField ==
    [][/\ (PatchedItem /\ lastCall'.idx \in 0..CHUNK_SIZE) =>
            IF lastCall'.idx = 3
            THEN IF sanitize_relative_path_str(lastCall'.val).ok
                 THEN /\ lastCall'.kind = "ok"
                      /\ files' = WithField(dirs, files, index, lastCall'.uuid, 2,
                                      sanitize_relative_path_str(lastCall'.val).val)
                 ELSE PatchRefused
            ELSE /\ lastCall'.kind = "ok"
                 /\ files' = WithField(dirs, files, index, lastCall'.uuid,
                                       PatchOffset(lastCall'.idx), lastCall'.val)
       /\ PatchRefusedCase => PatchRefused]_vars

C18_Witness ==
    /\ lastCall.op = "patch"
    /\ lastCall.uuid = "u2"
    /\ lastCall.idx = 0
    /\ lastCall.val = DotDot
    /\ lastCall.kind = "ok"
    /\ HasRecord(dirs, files, index, "u2")
    /\ RecordOf(dirs, files, index, "u2") =
          <<DotDot, NameN, NameN>> \o [i \in 1..(CHUNK_SIZE - 3) |-> Payload]

(***************************************************************************)
(* C13.  For every uuid present in the index, delete(uuid) succeeds and    *)
(* removes the uuid, so that a second delete(uuid) right after it is a     *)
(* delete of a uuid that is not in the index; delete of a uuid that is not *)
(* in the index returns failure and changes neither the index nor the      *)
(* storage.                                                                *)
(***************************************************************************)
DeleteStep == lastCall'.op = "delete" /\ nops' = nops + 1

C13_DoubleDelete ==
    [][DeleteStep =>
         IF InIndex(index, lastCall'.uuid)
         THEN lastCall'.kind = "ok" /\ ~InIndex(index', lastCall'.uuid)
         ELSE /\ lastCall'.kind = "fail"
              /\ index' = index
              /\ dirs' = dirs
              /\ files' = files]_vars

(***************************************************************************)
(* C14.  An add that is rejected for validation reasons (a record whose    *)
(* length is not 14, a uuid already in the index, a parent path with a     *)
(* ".." component) raises before any storage mutation: the index, the      *)
(* files and the directories are the same after the call as before it.     *)
(***************************************************************************)
AddStep == lastCall'.op = "add" /\ nops' = nops + 1

InvalidAdd(idx, uuid, chunks) ==
    \/ Len(chunks) # CHUNK_SIZE
    \/ InIndex(idx, uuid)
    \/ HasDotDotComponent(chunks[3])

C14_RejectedAddUnchanged ==
    [][AddStep =>
         /\ \A uuid \in Uuids, chunks \in AddRecords :
               InvalidAdd(index, uuid, chunks) =>
                  add_file(dirs, files, index, uuid, chunks)
                     = Failed("ValueError", dirs, files, index)
         /\ lastCall'.kind = "ValueError" =>
               (index' = index /\ dirs' = dirs /\ files' = files)]_vars

C14_Witness ==
    /\ lastCall.op = "add"
    /\ lastCall.kind = "ValueError"
    /\ InIndex(index, lastCall.uuid)
    /\ Append(base_path, NameN) \notin dirs

(***************************************************************************)
(* Helpers of the step-by-step properties.                                 *)
(***************************************************************************)
\* nothing is left at the storage of an entry: its file, or its directory
StorageGone(D, F, e) ==
    IF e.type = "folder" THEN ~Exists(D, F, PathOf(e.dir_path))
    ELSE ~Exists(D, F, PathOf(e.path))

\* the record file of an add call is on disk and holds the call's record
RecordWritten(D, F, c) ==
    /\ Walk(D, CallRecordPath(c)).ok
    /\ Walk(D, CallRecordPath(c)).p \in DOMAIN F
    /\ F[Walk(D, CallRecordPath(c)).p] = CallRecord(c)

\* the call stopped, or returned, at some point after its load
Loaded(c) == c.at >= 1

(***************************************************************************)
(* C15.  The index write is the last step of add and of delete: at every   *)
(* point of an add, and so wherever it is interrupted, the index contains  *)
(* the new uuid only if the item's record file has been written; at every  *)
(* point of a delete, the index entry is gone only if the item's storage   *)
(* has been removed.                                                       *)
(***************************************************************************)
C15_IndexWrittenLast ==
    \A p \in Procs :
        /\ (calls[p].op = "add" /\ Loaded(calls[p]) /\ InIndex(index, calls[p].uuid))
              => RecordWritten(dirs, files, calls[p])
        /\ (calls[p].op = "delete" /\ Loaded(calls[p]) /\ ~InIndex(index, calls[p].uuid))
              => StorageGone(dirs, files, EntryOf(calls[p].index, calls[p].uuid))

C15_Witness ==
    /\ calls[1].op = "add"
    /\ calls[1].result = "crashed"
    /\ calls[1].at = Len(FileSteps) - 1
    /\ RecordWritten(dirs, files, calls[1])
    /\ ~InIndex(index, calls[1].uuid)

(***************************************************************************)
(* C16.  When a delete(uuid) is interrupted after the item's storage was   *)
(* removed and before the index was saved, the dangling entry stays in the *)
(* index, and the retried delete(uuid) returns success and removes the     *)
(* entry; for file entries and for folder entries.                         *)
(***************************************************************************)
StoppedBeforeSave(op, uuid, at, result) ==
    op = "delete" /\ result = "crashed" /\ at = Len(DeleteSteps) - 1

Returned(c) == c.op # "none" /\ c.result \notin {"", "crashed", "crashed in save"}

C16_RetriedDeleteHeals ==
    \A p \in Procs :
        /\ StoppedBeforeSave(calls[p].op, calls[p].uuid, calls[p].at, calls[p].result)
              => /\ InIndex(index, calls[p].uuid)
                 /\ StorageGone(dirs, files, EntryOf(index, calls[p].uuid))
        /\ (/\ calls[p].op = "delete"
            /\ Returned(calls[p])
            /\ calls[p].before.uuid = calls[p].uuid
            /\ StoppedBeforeSave(calls[p].before.op, calls[p].before.uuid,
                                 calls[p].before.at, calls[p].before.result))
              => (calls[p].result = "ok" /\ ~InIndex(index, calls[p].uuid))

C16_Witness ==
    /\ calls[1].op = "delete"
    /\ calls[1].result = "ok"
    /\ calls[1].before.uuid = calls[1].uuid
    /\ StoppedBeforeSave(calls[1].before.op, calls[1].before.uuid,
                         calls[1].before.at, calls[1].before.result)
    /\ EntryOf(calls[1].index, calls[1].uuid).type = "folder"
    /\ index = <<>>

(***************************************************************************)
(* C19.  Without locking, the load-mutate-save cycle of the index loses    *)
(* updates.  The save of an add leaves in the index document the mapping   *)
(* the call loaded plus its own entry, whatever another call saved since   *)
(* the load (C19_SaveOverwrites); there is an interleaving of two adds     *)
(* with distinct fresh uuids in which both return success and both items   *)
(* are on disk, yet the final index holds one of the two uuids only        *)
(* (C19_Witness).                                                          *)
(***************************************************************************)
C19_SaveOverwrites ==
    [][\A p \in Procs :
          (/\ calls[p].op = "add"
           /\ AtStep(calls[p], "save")
           /\ calls'[p].at = calls[p].at + 1)
          => /\ calls'[p].result = "ok"
             /\ index' = Append(calls[p].index, CallEntry(calls[p]))]_vars

C19_Witness ==
    /\ calls[1].op = "add" /\ calls[1].result = "ok"
    /\ calls[2].op = "add" /\ calls[2].result = "ok"
    /\ calls[1].uuid # calls[2].uuid
    /\ RecordWritten(dirs, files, calls[1])
    /\ RecordWritten(dirs, files, calls[2])
    /\ CallRecordPath(calls[1]) # CallRecordPath(calls[2])
    /\ InIndex(index, calls[2].uuid)
    /\ ~InIndex(index, calls[1].uuid)

(***************************************************************************)
(* C20.  Without locking, uniqueness probing races.  The write of a file   *)
(* add does not look at the path again: it leaves the call's record there  *)
(* even when another call created the file after the probe                 *)
(* (C20_WriteOverwrites); there is an interleaving of two adds of files    *)
(* with the same name and parent in which both found the name free, both   *)
(* return success with the same resolved name, and the one record file on  *)
(* disk holds the record of the call that wrote last (C20_Witness).        *)
(***************************************************************************)
C20_WriteOverwrites ==
    [][\A p \in Procs :
          (/\ AtStep(calls[p], "write")
           /\ ~IsFolderCall(calls[p])
           /\ calls'[p] # calls[p]
           /\ Walk(dirs, CallItemPath(calls[p])).ok
           /\ Walk(dirs, CallItemPath(calls[p])).p \notin dirs)
          => /\ calls'[p].at = calls[p].at + 1
             /\ calls'[p].name = calls[p].name
             /\ RecordWritten(dirs', files', calls[p])]_vars

C20_Witness ==
    /\ calls[1].op = "add" /\ calls[1].result = "ok" /\ ~IsFolderCall(calls[1])
    /\ calls[2].op = "add" /\ calls[2].result = "ok" /\ ~IsFolderCall(calls[2])
    /\ calls[1].name = CallFilename(calls[1])
    /\ calls[2].name = calls[1].name
    /\ calls[2].target = calls[1].target
    /\ Cardinality(DOMAIN files) = 1
    /\ RecordWritten(dirs, files, calls[2])
    /\ ~RecordWritten(dirs, files, calls[1])

(***************************************************************************)
(* C21.  list never fails because of one bad entry: when the record file   *)
(* of an entry is unreadable, unparsable or not a list of 14 elements,     *)
(* list still returns, that entry contributes no element, and every entry  *)
(* with a valid record contributes its 14 fields.  An entry whose record   *)
(* file is absent is none of these cases and is left to the code.          *)
(***************************************************************************)
\* something is at the path of the record file, and it is not a 14-element list
BadRecord(D, F, e) ==
    /\ Exists(D, F, PathOf(e.path))
    /\ ~ValidEntry(D, F, e)

ClaimedFields(D, F, e) ==
    IF ValidEntry(D, F, e) THEN F[Walk(D, PathOf(e.path)).p]
    ELSE IF BadRecord(D, F, e) THEN <<>>
    ELSE EntryOfsf(D, F, e)

RECURSIVE ClaimedListFrom(_, _, _, _)
ClaimedListFrom(D, F, idx, i) ==
    IF i > Len(idx) THEN <<>>
    ELSE ClaimedFields(D, F, idx[i]) \o ClaimedListFrom(D, F, idx, i + 1)

C21_BadEntrySkipped ==
    lastCall.op = "list" => lastCall.out = ClaimedListFrom(dirs, files, index, 1)

(***************************************************************************)
(* C22.  In a batch of intents, every intent is processed regardless of    *)
(* the outcome of earlier intents: each turn of the loop finishes its      *)
(* intent and moves to the next one; a failing intent (validation error,   *)
(* storage error, failed patch or delete, unknown command) is recorded in  *)
(* the error list; a successful one is not, and the store after it is the  *)
(* store the adapter call left.                                            *)
(***************************************************************************)
\* what the adapter call of an intent makes of a store
IntentOutcome(D, F, idx, it) ==
    IF it.uuid = "" \/ it.command \notin {"UUIDa", "UUIDr", "UUIDd"}
    THEN [ok |-> FALSE, dirs |-> D, files |-> F, index |-> idx]
    ELSE IF it.command = "UUIDa"
    THEN LET r == add_file(D, F, idx, it.uuid, it.chunks)
         IN  [ok |-> r.kind = "ok", dirs |-> r.dirs, files |-> r.files, index |-> r.index]
    ELSE IF it.command = "UUIDr"
    THEN LET r == update_chunk(D, F, idx, it.uuid, it.idx, it.val)
         IN  [ok |-> r.ok, dirs |-> D, files |-> r.files, index |-> r.index]
    ELSE LET r == delete_file(D, F, idx, it.uuid)
         IN  [ok |-> r.ok, dirs |-> r.dirs, files |-> r.files, index |-> r.index]

C22_BatchIsolation ==
    [][InLoop =>
         LET o == IntentOutcome(dirs, files, index, CurrentIntent)
         IN  /\ pc' = "idle"
             /\ batch'.pos = batch.pos + 1
             /\ batch'.intents = batch.intents
             /\ batch'.errors = IF o.ok THEN batch.errors
                                ELSE Append(batch.errors, batch.pos)
             /\ o.ok => (dirs' = o.dirs /\ files' = o.files /\ index' = o.index)]_vars

(***************************************************************************)
(* C23.  When the index document is missing or corrupt, load returns an    *)
(* empty mapping instead of failing: list returns an empty array, patch    *)
(* and delete return failure for every uuid and change nothing, and add    *)
(* proceeds as on an empty index; when it succeeds, its save leaves the    *)
(* document with the new entry only.                                       *)
(***************************************************************************)
CallStep == nops' = nops + 1

C23_DegradedIndex ==
    [][(CallStep /\ index \in DegradedDocs) =>
         /\ lastCall'.op = "list" =>
               (lastCall'.kind = "ok" /\ lastCall'.out = <<>>)
         /\ lastCall'.op \in {"patch", "delete"} =>
               (/\ lastCall'.kind = "fail"
                /\ dirs' = dirs /\ files' = files /\ index' = index)
         /\ lastCall'.op = "add" =>
               \E chunks \in StepRecords :
                  LET r == add_file(dirs, files, <<>>, lastCall'.uuid, chunks)
                  IN  /\ lastCall'.kind = r.kind
                      /\ dirs' = r.dirs
                      /\ files' = r.files
                      /\ index' = IF r.kind = "ok" THEN r.index ELSE index
                      /\ r.kind = "ok" =>
                            (Len(index') = 1 /\ index'[1].uuid = lastCall'.uuid)]_vars

(***************************************************************************)
(* C24.  In every state reached by sequential add, patch and delete calls  *)
(* with no crash, the record file of every index entry exists on disk; in  *)
(* particular, after a delete of a folder succeeded, no index entry is     *)
(* left whose physical path lies inside the removed directory tree.        *)
(***************************************************************************)
RecordOnDisk(D, F, e) ==
    /\ e.path # EmptyStr
    /\ Walk(D, PathOf(e.path)).ok
    /\ Walk(D, PathOf(e.path)).p \in DOMAIN F

FolderDeleted(uuid) ==
    /\ DeleteStep
    /\ lastCall'.uuid = uuid
    /\ lastCall'.kind = "ok"
    /\ InIndex(index, uuid)
    /\ EntryOf(index, uuid).type = "folder"

C24_NoDanglingEntry ==
    /\ [](\A i \in 1..Len(index) : RecordOnDisk(dirs, files, index[i]))
    /\ [][\A uuid \in Uuids :
            FolderDeleted(uuid) =>
               \A i \in 1..Len(index') :
                  ~IsUnder(Physical(PathOf(index'[i].path)),
                           Physical(PathOf(EntryOf(index, uuid).dir_path)))]_vars

(***************************************************************************)
(* C25.  For folders, directory creation is exclusive: in every            *)
(* interleaving of two concurrent adds of folders with the same desired    *)
(* name and parent, at most one call gets past the mkdir with a given      *)
(* resolved name; the other resolves a different name or fails with a      *)
(* storage error, and the metadata file of a call that wrote it holds that *)
(* call's record from then on.                                             *)
(***************************************************************************)
\* the folder add created its directory (line 203 returned)
MadeDir(c) == IsFolderCall(c) /\ c.at >= 4

\* the folder add wrote its metadata file (line 211 returned)
WroteMeta(c) == IsFolderCall(c) /\ c.at >= 5

SameRequest(c, d) ==
    /\ IsFolderCall(c) /\ IsFolderCall(d)
    /\ NameOf(c.chunks) = NameOf(d.chunks)
    /\ ParentOf(c.chunks) = ParentOf(d.chunks)

C25_ExclusiveMkdir ==
    \A p \in Procs, q \in Procs :
        (p # q /\ SameRequest(calls[p], calls[q])) =>
            /\ (MadeDir(calls[p]) /\ MadeDir(calls[q])) => calls[p].name # calls[q].name
            /\ (MadeDir(calls[p]) /\ calls[q].at >= 3 /\ ~Running(calls[q])
                    /\ calls[q].name = calls[p].name)
                  => calls[q].result = "RuntimeError"
            /\ WroteMeta(calls[p]) => RecordWritten(dirs, files, calls[p])

C25_Witness ==
    /\ SameRequest(calls[1], calls[2])
    /\ calls[1].name = calls[2].name
    /\ calls[1].result = "ok"
    /\ calls[2].result = "RuntimeError"
    /\ calls[2].at = 3
    /\ RecordWritten(dirs, files, calls[1])
    /\ InIndex(index, calls[1].uuid)
    /\ ~InIndex(index, calls[2].uuid)

(***************************************************************************)
(* C26.  list emits the records in the insertion order of the index, and   *)
(* for an item that was added and never patched the 14 fields are the      *)
(* supplied record with field 1 replaced by the resolved name and field 2  *)
(* by the sanitized parent path.  Stated on each successful add: the       *)
(* listing after it is the listing before it, followed by the 14 fields of *)
(* the new item.  The records of AddRecords carry Payload in fields 3-13.  *)
(***************************************************************************)
\* the resolved name: as returned, or without the type
ResolvedNames(call) == {call.resName, RemoveAll(call.resName, call.type)}

AddedFields(call, name) ==
    <<call.type, name, call.rel>> \o [i \in 1..(CHUNK_SIZE - 3) |-> Payload]

C26_ListOrderAndFields ==
    [][(AddStep /\ lastCall'.kind = "ok") =>
         \E name \in ResolvedNames(lastCall') :
            get_ofsf(dirs', files', index')
               = get_ofsf(dirs, files, index) \o AddedFields(lastCall', name)]_vars

(***************************************************************************)
(* C27.  sanitize is idempotent: on every string on which it succeeds,     *)
(* sanitizing its output succeeds and returns that output again.           *)
(***************************************************************************)
C27_SanitizeIdempotent ==
    (sanOut.run /\ sanOut.ok) =>
        /\ sanitize_relative_path_str(sanOut.val).ok
        /\ sanitize_relative_path_str(sanOut.val).val = sanOut.val

(***************************************************************************)
(* C28.  On construction of the adapter: when the index document does not  *)
(* exist and a readable legacy index exists inside the user root, the      *)
(* document receives the legacy content and the legacy file is removed;    *)
(* when the legacy file cannot be read, the document is initialized empty; *)
(* when the document exists, it is left unchanged and nothing migrates.    *)
(***************************************************************************)
Constructing == pc = "new" /\ pc' = "idle"

LegacyReadable(F) == legacy_index \in DOMAIN F /\ F[legacy_index] # TornIndex

LegacyUnreadable(D, F) ==
    \/ legacy_index \in DOMAIN F /\ F[legacy_index] = TornIndex
    \/ legacy_index \in D

C28_LegacyMigration ==
    [][Constructing =>
         /\ (index = MissingIndex /\ LegacyReadable(files)) =>
               /\ index' = files[legacy_index]
               /\ files' = Without(files, {legacy_index})
         /\ (index = MissingIndex /\ LegacyUnreadable(dirs, files)) =>
               (index' = <<>> /\ files' = files)
         /\ index # MissingIndex =>
               (index' = index /\ files' = files /\ dirs' = dirs)]_vars

C28_Witness ==
    /\ pc = "idle"
    /\ nops = 0
    /\ index = SeedFile.index
    /\ legacy_index \notin DOMAIN files
    /\ legacy_index \notin dirs

====
